---- MODULE Spec2Model ----
(***************************************************************************)
(* A model of the concurrent crawl-extract-upload pipeline of the H&M      *)
(* scraper: the merge-on-write store (gcp/gcp_bucket.py), the session      *)
(* tracker and the batch loop (product_api.py, main_api.py) and the        *)
(* retrying fetcher crawl_url (product_api.py).                            *)
(*                                                                         *)
(* Text is modelled as a sequence of one-character strings, so that the    *)
(* code's join / strip / split / splitlines are computed and not assumed.  *)
(***************************************************************************)
EXTENDS Integers, Sequences, FiniteSets, TLC

VARIABLES
    \* ---- remote objects (the three blobs of the bucket) ----
    urls_blob,          \* garments/urls.txt
    mapping_blob,       \* image_mapping1.json
    garments_blob,      \* garments-info/products-info_test.txt
    \* ---- gcp_bucket.py: the lock and the in-process callers ----
    gcs_lock,           \* _gcs_lock: 0 when free, else the holder
    w_pc,               \* position of each caller inside an upload_* call
    w_op,               \* which upload_* function the caller is in
    w_arg,              \* the argument of the call
    w_existing,         \* the local existing_urls / existing_mapping / existing_garments
    w_ret,              \* how the caller's last call ended
    w_calls,            \* number of calls the caller has started
    \* ---- history of the store, for stating the claims ----
    urls_prev,          \* the URL set persisted before any call
    urls_returned,      \* entries submitted by upload_urls_to_gcs calls that returned
    mapping_prev,       \* the mapping persisted before any call
    mapping_log,        \* per caller: the upload_image_mapping_to_gcs calls that ended
    garments_prev,      \* the garment log persisted before any call
    garments_log,       \* the lists passed to the upload_processed_garments_to_gcs
                        \* calls that returned, one after the other
    \* ---- product_api.py / main_api.py: the session tracker ----
    app,                \* the module the process runs: "product_api" or "main_api"
    active_sessions,    \* _active_sessions
    sessions_lock,      \* _sessions_lock: 0 when free, else the holder
    image_mapping_lock, \* _image_mapping_lock: 0 when free, else the holder
    image_mapping,      \* _global_image_mapping, a dict
    s_pc,               \* position of each session
    s_tmp,              \* the value read by "_active_sessions += 1" / "-= 1" (0 outside)
    s_current,          \* current_session
    s_exit,             \* how the session left its try block
    s_incs,             \* number of increments the session made
    s_decs,             \* number of decrements the session made
    \* ---- product_api.py: crawl_url ----
    max_retries,        \* the max_retries argument of the running crawl_url calls
    tasks,              \* the crawl_url calls of the running batch, in input order
    \* ---- product_api.py: one /process request in detail ----
    p_req,              \* the JSON body of the request
    p_status,           \* HTTP status answered (0: none yet)
    p_all_urls,         \* all_urls
    p_urls,             \* urls_to_process
    p_all_content,      \* all_content
    p_batch_num,        \* batch_num: the number of batches started
    p_cooldowns,        \* number of "await asyncio.sleep(2)" between batches
    p_summary,          \* the dict process_hm_products returned
    \* ---- transformation/hardcoded_re.py: one call of an extraction function ----
    fn_text,            \* the text argument of the call
    fn_result,          \* what the call returned, or raised (NoResult before)
    \* ---- main_api.py: the page loop of one scrape_hm_products call ----
    pg_pc,              \* position of the call
    pg_start,           \* start_page
    pg_end,             \* end_page
    pg_index,           \* index, the loop variable (the page being crawled)
    pg_all_urls,        \* all_urls
    pg_crawls,          \* the crawl_products calls made: page index and outcome
    pg_uploads,         \* the lists passed to upload_urls_to_gcs
    pg_result,          \* the dict returned (NoSummary before)
    \* ---- web_server.py: the scraper status and the /scrape requests ----
    is_running,         \* scraping_status["is_running"]
    last_run,           \* scraping_status["last_run"]
    r_pc,               \* position of each trigger_scrape request
    r_saw_running,      \* what the request read from scraping_status["is_running"]
    r_status,           \* HTTP status answered (0: none yet)
    t_pc                \* position of the thread each request started

blobVars == <<urls_blob, mapping_blob, garments_blob>>
writerVars == <<w_pc, w_op, w_arg, w_existing, w_ret, w_calls, urls_prev, urls_returned,
                mapping_prev, mapping_log, garments_prev, garments_log>>
sessVars == <<app, active_sessions, sessions_lock, image_mapping_lock, image_mapping,
              s_pc, s_tmp, s_current, s_exit, s_incs, s_decs>>

crawlVars == <<max_retries, tasks>>
procVars == <<p_req, p_status, p_all_urls, p_urls, p_all_content, p_batch_num,
              p_cooldowns, p_summary>>

fnVars == <<fn_text, fn_result>>
pageVars == <<pg_pc, pg_start, pg_end, pg_index, pg_all_urls, pg_crawls, pg_uploads,
              pg_result>>
webVars == <<is_running, last_run, r_pc, r_saw_running, r_status, t_pc>>

vars == <<blobVars, gcs_lock, writerVars, sessVars, crawlVars, procVars, fnVars, pageVars,
          webVars>>

-----------------------------------------------------------------------------
(* Bounds of the model *)

\* number of in-process callers of the store that run concurrently, each
\* making one upload_* call
NumWriters == 2
\* number of calls the single sequential caller of SpecMapping makes
MaxSeqCalls == 2

\* number of sessions that run concurrently in the process
NumSessions == 2

Writers == 1..NumWriters
Sessions == 1..NumSessions

-----------------------------------------------------------------------------
(* Text: Python str operations on sequences of characters *)

Range(s) == {s[i] : i \in DOMAIN s}

\* str.isspace for one character
IsSpace(c) == c \in {" ", "\n"}

\* code point order of the characters that occur
Code(c) ==
    CASE c = "\n" -> 10
      [] c = " " -> 32
      [] c = "1" -> 49
      [] c = "2" -> 50
      [] c = "a" -> 97
      [] c = "b" -> 98
      [] c = "f" -> 102
      [] OTHER -> 0

\* Python's < on str
RECURSIVE StrLess(_, _)
StrLess(a, b) ==
    IF b = <<>> THEN FALSE
    ELSE IF a = <<>> THEN TRUE
    ELSE IF Code(Head(a)) # Code(Head(b)) THEN Code(Head(a)) < Code(Head(b))
    ELSE StrLess(Tail(a), Tail(b))

\* str.lstrip()
RECURSIVE LStrip(_)
LStrip(s) ==
    IF s # <<>> /\ IsSpace(Head(s)) THEN LStrip(Tail(s)) ELSE s

\* str.rstrip()
RECURSIVE RStrip(_)
RStrip(s) ==
    IF s # <<>> /\ IsSpace(s[Len(s)]) THEN RStrip(SubSeq(s, 1, Len(s) - 1)) ELSE s

\* str.strip()
Strip(s) == RStrip(LStrip(s))

\* index of the first "\n" of s, 0 when there is none
FirstNewline(s) ==
    IF \E i \in DOMAIN s : s[i] = "\n"
    THEN CHOOSE i \in DOMAIN s : s[i] = "\n" /\ \A j \in 1..(i - 1) : s[j] # "\n"
    ELSE 0

\* s.split('\n')
RECURSIVE Split(_)
Split(s) ==
    LET i == FirstNewline(s) IN
    IF i = 0 THEN <<s>>
    ELSE <<SubSeq(s, 1, i - 1)>> \o Split(SubSeq(s, i + 1, Len(s)))

\* s.splitlines(): no empty last line, "" gives []
RECURSIVE SplitLines(_)
SplitLines(s) ==
    LET i == FirstNewline(s) IN
    IF s = <<>> THEN <<>>
    ELSE IF i = 0 THEN <<s>>
    ELSE <<SubSeq(s, 1, i - 1)>> \o SplitLines(SubSeq(s, i + 1, Len(s)))

\* "\n".join(parts)
RECURSIVE Join(_)
Join(parts) ==
    IF parts = <<>> THEN <<>>
    ELSE IF Len(parts) = 1 THEN parts[1]
    ELSE parts[1] \o <<"\n">> \o Join(Tail(parts))

\* sorted(S) for a set S of str
RECURSIVE Sorted(_)
Sorted(S) ==
    IF S = {} THEN <<>>
    ELSE LET m == CHOOSE x \in S : \A y \in S \ {x} : StrLess(x, y)
         IN <<m>> \o Sorted(S \ {m})

\* a remote object: absent (NotFound on download) or holding a body
Absent == [exists |-> FALSE, body |-> <<>>]
Blob(body) == [exists |-> TRUE, body |-> body]

-----------------------------------------------------------------------------
(* gcp/gcp_bucket.py: the values the store works on *)

\* product URLs (no white space inside a URL) and blank entries
UA == <<"a">>
UAB == <<"a", "b">>
UB == <<"b">>
BlankEmpty == <<>>
BlankSpace == <<" ">>
UrlUniverse == {UA, UAB, UB}

\* the lists a caller passes to upload_urls_to_gcs
UrlInputs ==
    { <<>>, <<UA>>, <<UB, UA>>, <<UAB, UAB>>, <<BlankEmpty>>, <<BlankSpace, UAB>> }

\* a Python dict: its items in insertion order, keys unique
DictKeys(d) == {d[i][1] : i \in DOMAIN d}
DictGet(d, k) == d[CHOOSE i \in DOMAIN d : d[i][1] = k][2]
DictSet(d, k, v) ==
    IF k \in DictKeys(d)
    THEN [i \in DOMAIN d |-> IF d[i][1] = k THEN <<k, v>> ELSE d[i]]
    ELSE Append(d, <<k, v>>)

\* dict.update(m)
RECURSIVE DictUpdate(_, _)
DictUpdate(d, m) ==
    IF m = <<>> THEN d
    ELSE DictUpdate(DictSet(d, Head(m)[1], Head(m)[2]), Tail(m))

\* json.dumps(d, indent=2): the members of the object, in the dict's order
JsonDumps(d) == [valid |-> TRUE, members |-> d]
\* a body json.loads rejects with JSONDecodeError: the text of an object cut
\* off after its first member
CorruptJson == [valid |-> FALSE, members |-> << <<"Y", 3>> >>]
\* json.loads(text): members inserted in order, a repeated key keeps the last value
JsonLoads(text) == DictUpdate(<<>>, text.members)

\* the dicts a caller passes to upload_image_mapping_to_gcs
MappingInputs ==
    { <<>>, << <<"X", 1>> >>, << <<"X", 2>> >>, << <<"Y", 3>> >>,
      << <<"Y", 1>>, <<"X", 2>> >> }

\* the mappings found persisted at the start
MappingStates ==
    { <<>>, << <<"Y", 3>> >>, << <<"X", 3>>, <<"Y", 1>> >>, << <<"Z", 2>>, <<"X", 1>> >> }

\* the string extract_sections_from_markdown_openai returns for article k:
\* the "Article ID" line, the further field lines (indented), and the last
\* line of the f-string, which is indentation only
GarmentText(k) == <<k, "\n", " ", "f", "\n", " ">>
\* a None entry of the list passed to upload_processed_garments_to_gcs
NoneVal == <<"None">>

\* the lists a caller passes to upload_processed_garments_to_gcs
GarmentInputs ==
    { <<>>, <<GarmentText("1")>>, <<GarmentText("2"), GarmentText("1")>>,
      <<NoneVal, GarmentText("2")>> }

-----------------------------------------------------------------------------
(* gcp/gcp_bucket.py: download, merge, upload *)

\* upload_urls_to_gcs: existing_urls
ExistingUrls(blob) ==
    IF ~blob.exists THEN {}
    ELSE IF Strip(blob.body) # <<>> THEN Range(Split(Strip(blob.body)))
    ELSE {}

\* a merge that forgets what was persisted (overwrite instead of append)
MergedUrlsOverwrite(existing, urls) ==
    {u \in Range(urls) : Strip(u) # <<>>}

\* upload_urls_to_gcs: all_urls, without the blank entries
MergedUrls(existing, urls) ==
    {u \in existing \cup Range(urls) : Strip(u) # <<>>}

\* a content joined in descending order
UrlsContentDescending(all_urls) ==
    LET s == Sorted(all_urls) IN Join([i \in 1..Len(s) |-> s[Len(s) + 1 - i]])

\* upload_urls_to_gcs: the content uploaded
UrlsContent(all_urls) == Join(Sorted(all_urls))

\* a parse that keeps the members it can read of a body that is not valid
ExistingMappingLenient(blob) ==
    IF ~blob.exists THEN <<>>
    ELSE JsonLoads(blob.body)

\* upload_image_mapping_to_gcs: existing_mapping
ExistingMapping(blob) ==
    IF ~blob.exists THEN <<>>
    ELSE IF ~blob.body.valid THEN <<>>
    ELSE JsonLoads(blob.body)

\* a merge in which the persisted entry wins over the new one
CombinedMappingKeepOld(existing, mapping_dict) == DictUpdate(mapping_dict, existing)

\* upload_image_mapping_to_gcs: combined_mapping
CombinedMapping(existing, mapping_dict) == DictUpdate(existing, mapping_dict)

\* a missing object read as an empty text that is split without the test for
\* emptiness: one empty line
ExistingGarmentsOneEmptyLine(blob) ==
    IF ~blob.exists THEN << <<>> >>
    ELSE IF Strip(blob.body) # <<>> THEN Split(Strip(blob.body))
    ELSE <<>>

\* upload_processed_garments_to_gcs: existing_garments
ExistingGarments(blob) ==
    IF ~blob.exists THEN <<>>
    ELSE IF Strip(blob.body) # <<>> THEN Split(Strip(blob.body))
    ELSE <<>>

\* a write that replaces the log by the new records
GarmentsContentOverwrite(existing, garments) ==
    Join(SelectSeq(garments, LAMBDA g : g # NoneVal))

\* upload_processed_garments_to_gcs: the content uploaded
GarmentsContent(existing, garments) ==
    Join(existing \o SelectSeq(garments, LAMBDA g : g # NoneVal))

\* download_urls_from_gcs, for a blob that exists
DownloadedUrls(blob) == SplitLines(blob.body)

\* download_image_mapping_from_gcs: NotFound and any other error give {}
DownloadedMapping(blob) ==
    IF blob.exists /\ blob.body.valid THEN JsonLoads(blob.body) ELSE <<>>

-----------------------------------------------------------------------------
(* gcp/gcp_bucket.py: the three upload_* functions, step by step *)

\* the value a call that returns normally gives its caller
NormalReturn(op) == IF op = "mapping" THEN "True" ELSE "None"

\* what the end of a call adds to the history of the store
LogCall(t, op, arg, ret) ==
    /\ urls_returned' =
           IF op = "urls" /\ ret = "None" THEN urls_returned \cup Range(arg)
           ELSE urls_returned
    /\ mapping_log' =
           IF op = "mapping"
           THEN [mapping_log EXCEPT ![t] = Append(@, [arg |-> arg, ret |-> ret])]
           ELSE mapping_log
    /\ garments_log' =
           IF op = "garments" /\ ret = "None" THEN garments_log \o arg
           ELSE garments_log
    /\ UNCHANGED <<urls_prev, mapping_prev, garments_prev>>

\* a lock that excludes nobody
LockIgnored == TRUE

\* threading.Lock: acquire() goes through only while nobody holds the lock
LockFree == gcs_lock = 0

\* a call that goes to the lock whatever its argument
InvokeAlwaysLocks(t, op, arg, limit) ==
    /\ w_pc[t] = "idle"
    /\ w_calls[t] < limit
    /\ w_calls' = [w_calls EXCEPT ![t] = @ + 1]
    /\ w_op' = [w_op EXCEPT ![t] = op]
    /\ w_arg' = [w_arg EXCEPT ![t] = arg]
    /\ w_pc' = [w_pc EXCEPT ![t] = "lock"]
    /\ w_ret' = [w_ret EXCEPT ![t] = "running"]
    /\ UNCHANGED <<urls_prev, urls_returned, mapping_prev, mapping_log,
                   garments_prev, garments_log>>
    /\ UNCHANGED <<urls_blob, mapping_blob, garments_blob, gcs_lock, w_existing>>

\* A caller enters upload_urls_to_gcs / upload_image_mapping_to_gcs /
\* upload_processed_garments_to_gcs. "if not urls: return" (and the like)
\* ends the call at once, before the lock.
Invoke(t, op, arg, limit) ==
    /\ w_pc[t] = "idle"
    /\ w_calls[t] < limit
    /\ w_calls' = [w_calls EXCEPT ![t] = @ + 1]
    /\ w_op' = [w_op EXCEPT ![t] = op]
    /\ w_arg' = [w_arg EXCEPT ![t] = arg]
    /\ IF arg = <<>>
       THEN /\ w_ret' = [w_ret EXCEPT ![t] = NormalReturn(op)]
            /\ LogCall(t, op, arg, NormalReturn(op))
            /\ UNCHANGED w_pc
       ELSE /\ w_pc' = [w_pc EXCEPT ![t] = "lock"]
            /\ w_ret' = [w_ret EXCEPT ![t] = "running"]
            /\ UNCHANGED <<urls_prev, urls_returned, mapping_prev, mapping_log,
                           garments_prev, garments_log>>
    /\ UNCHANGED <<urls_blob, mapping_blob, garments_blob, gcs_lock, w_existing>>

\* "with _gcs_lock:" on entry
Acquire(t) ==
    /\ w_pc[t] = "lock"
    /\ LockFree
    /\ gcs_lock' = t
    /\ w_pc' = [w_pc EXCEPT ![t] = "download"]
    /\ UNCHANGED <<urls_blob, mapping_blob, garments_blob, w_op, w_arg, w_existing,
                   w_ret, w_calls, urls_prev, urls_returned, mapping_prev, mapping_log,
                   garments_prev, garments_log>>

\* blob.download_as_text() and the parse of what it returned; NotFound and,
\* for the mapping, JSONDecodeError give the empty base
Download(t) ==
    /\ w_pc[t] = "download"
    /\ w_existing' = [w_existing EXCEPT ![t] =
           CASE w_op[t] = "urls" -> ExistingUrls(urls_blob)
             [] w_op[t] = "mapping" -> ExistingMapping(mapping_blob)
             [] w_op[t] = "garments" -> ExistingGarments(garments_blob)]
    /\ w_pc' = [w_pc EXCEPT ![t] = "upload"]
    /\ UNCHANGED <<urls_blob, mapping_blob, garments_blob, gcs_lock, w_op, w_arg,
                   w_ret, w_calls, urls_prev, urls_returned, mapping_prev, mapping_log,
                   garments_prev, garments_log>>

\* An exception of the storage client leaves the with-block, which releases
\* the lock: upload_image_mapping_to_gcs catches it and returns False, the
\* other two let it reach the caller.
Fail(t) ==
    LET ret == IF w_op[t] = "mapping" THEN "False" ELSE "raised" IN
    /\ gcs_lock' = 0
    /\ w_pc' = [w_pc EXCEPT ![t] = "idle"]
    /\ w_ret' = [w_ret EXCEPT ![t] = ret]
    /\ LogCall(t, w_op[t], w_arg[t], ret)
    /\ UNCHANGED <<urls_blob, mapping_blob, garments_blob, w_op, w_arg, w_existing,
                   w_calls>>

\* storage.Client(), bucket.blob() or download_as_text() raises something
\* other than NotFound
DownloadFails(t) ==
    /\ w_pc[t] = "download"
    /\ Fail(t)

\* the merge and blob.upload_from_string(content)
Upload(t) ==
    /\ w_pc[t] = "upload"
    /\ CASE w_op[t] = "urls" ->
              /\ urls_blob' = Blob(UrlsContent(MergedUrls(w_existing[t], w_arg[t])))
              /\ UNCHANGED <<mapping_blob, garments_blob>>
         [] w_op[t] = "mapping" ->
              /\ mapping_blob' = Blob(JsonDumps(CombinedMapping(w_existing[t], w_arg[t])))
              /\ UNCHANGED <<urls_blob, garments_blob>>
         [] w_op[t] = "garments" ->
              /\ garments_blob' = Blob(GarmentsContent(w_existing[t], w_arg[t]))
              /\ UNCHANGED <<urls_blob, mapping_blob>>
    /\ w_pc' = [w_pc EXCEPT ![t] = "release"]
    /\ UNCHANGED <<gcs_lock, w_op, w_arg, w_existing, w_ret, w_calls, urls_prev,
                   urls_returned, mapping_prev, mapping_log, garments_prev, garments_log>>

\* blob.upload_from_string raises: nothing is written
UploadFails(t) ==
    /\ w_pc[t] = "upload"
    /\ Fail(t)

\* the end of the with-block: the lock is released and the call returns
Release(t) ==
    /\ w_pc[t] = "release"
    /\ gcs_lock' = 0
    /\ w_pc' = [w_pc EXCEPT ![t] = "idle"]
    /\ w_ret' = [w_ret EXCEPT ![t] = NormalReturn(w_op[t])]
    /\ LogCall(t, w_op[t], w_arg[t], NormalReturn(w_op[t]))
    /\ UNCHANGED <<urls_blob, mapping_blob, garments_blob, w_op, w_arg, w_existing,
                   w_calls>>

\* one step of a caller that is inside a call
StoreStep(t) ==
    \/ Acquire(t)
    \/ Download(t)
    \/ DownloadFails(t)
    \/ Upload(t)
    \/ UploadFails(t)
    \/ Release(t)

CallUrls(t) == \E urls \in UrlInputs : Invoke(t, "urls", urls, 1)
CallMapping(t) == \E m \in MappingInputs : Invoke(t, "mapping", m, 1)
CallGarments(t) == \E g \in GarmentInputs : Invoke(t, "garments", g, 1)
CallMappingSeq == \E m \in MappingInputs : Invoke(1, "mapping", m, MaxSeqCalls)

\* the bodies urls.txt can hold: absent, or what upload_urls_to_gcs wrote
UrlsBlobStates == {Absent} \cup {Blob(UrlsContent(S)) : S \in SUBSET UrlUniverse}
\* the bodies image_mapping1.json can hold: absent, corrupted, or a mapping
MappingBlobStates ==
    {Absent, Blob(CorruptJson)} \cup {Blob(JsonDumps(d)) : d \in MappingStates}
\* the default of crawl_url's max_retries
DefaultMaxRetries == 3

\* no extraction function is being checked on its own
NoResult == [returned |-> FALSE]
FnIdle ==
    /\ fn_text = <<>>
    /\ fn_result = NoResult

\* process_hm_products has returned nothing yet
NoSummary == [returned |-> FALSE]

\* no scrape_hm_products call is followed page by page
PageIdle ==
    /\ pg_pc = "idle"
    /\ pg_start = 0
    /\ pg_end = 0
    /\ pg_index = 0
    /\ pg_all_urls = <<>>
    /\ pg_crawls = <<>>
    /\ pg_uploads = <<>>
    /\ pg_result = NoSummary

\* web_server after import: scraping_status as initialised, no request made
WebIdle ==
    /\ is_running = FALSE
    /\ last_run = "None"
    /\ r_pc = <<>>
    /\ r_saw_running = <<>>
    /\ r_status = <<>>
    /\ t_pc = <<>>

\* no crawl_url call is running
CrawlIdle ==
    /\ max_retries = DefaultMaxRetries
    /\ tasks = <<>>

\* no request is being processed
ProcessIdle ==
    /\ p_req = [start_index |-> 0, end_index |-> 0, batch_size |-> 0]
    /\ p_status = 0
    /\ p_all_urls = <<>>
    /\ p_urls = <<>>
    /\ p_all_content = <<>>
    /\ p_batch_num = 0
    /\ p_cooldowns = 0
    /\ p_summary = NoSummary

\* the module state of product_api / main_api after import, no session started
TrackerIdle ==
    /\ active_sessions = 0
    /\ sessions_lock = 0
    /\ image_mapping_lock = 0
    /\ image_mapping = <<>>
    /\ s_pc = [s \in Sessions |-> "start"]
    /\ s_tmp = [s \in Sessions |-> 0]
    /\ s_current = [s \in Sessions |-> 0]
    /\ s_exit = [s \in Sessions |-> "none"]
    /\ s_incs = [s \in Sessions |-> 0]
    /\ s_decs = [s \in Sessions |-> 0]

\* no session has been started, nothing is crawled
SessionsIdle ==
    /\ app = "product_api"
    /\ TrackerIdle
    /\ CrawlIdle
    /\ FnIdle
    /\ PageIdle
    /\ WebIdle
    /\ ProcessIdle

StoreInit(urlsStates, mappingStates, garmentsStates) ==
    /\ urls_blob \in urlsStates
    /\ mapping_blob \in mappingStates
    /\ garments_blob \in garmentsStates
    /\ gcs_lock = 0
    /\ w_pc = [t \in Writers |-> "idle"]
    /\ w_op = [t \in Writers |-> "none"]
    /\ w_arg = [t \in Writers |-> <<>>]
    /\ w_existing = [t \in Writers |-> <<>>]
    /\ w_ret = [t \in Writers |-> "none"]
    /\ w_calls = [t \in Writers |-> 0]
    /\ urls_prev = urls_blob
    /\ urls_returned = {}
    /\ mapping_prev = mapping_blob
    /\ mapping_log = [t \in Writers |-> <<>>]
    /\ garments_prev = garments_blob
    /\ garments_log = <<>>

(* Concurrent callers of upload_urls_to_gcs *)
InitUrls == StoreInit(UrlsBlobStates, {Absent}, {Absent}) /\ SessionsIdle
NextUrls ==
    /\ \E t \in Writers : CallUrls(t) \/ StoreStep(t)
    /\ UNCHANGED <<sessVars, crawlVars, procVars, fnVars, pageVars, webVars>>
SpecUrls == InitUrls /\ [][NextUrls]_vars

(* One caller making upload_image_mapping_to_gcs calls one after the other *)
InitMapping == StoreInit({Absent}, MappingBlobStates, {Absent}) /\ SessionsIdle
NextMapping ==
    /\ CallMappingSeq \/ StoreStep(1)
    /\ UNCHANGED <<sessVars, crawlVars, procVars, fnVars, pageVars, webVars>>
SpecMapping == InitMapping /\ [][NextMapping]_vars

(* Concurrent callers of the three upload_* functions *)
InitStore ==
    /\ \/ StoreInit({Absent}, {Absent}, {Absent})
       \/ StoreInit({Blob(UrlsContent({UAB}))}, {Blob(JsonDumps(<< <<"Y", 3>> >>))},
                    {Blob(GarmentsContent(<<>>, <<GarmentText("1")>>))})
    /\ SessionsIdle
NextStore ==
    /\ \E t \in Writers : CallUrls(t) \/ CallMapping(t) \/ CallGarments(t) \/ StoreStep(t)
    /\ UNCHANGED <<sessVars, crawlVars, procVars, fnVars, pageVars, webVars>>
SpecStore == InitStore /\ [][NextStore]_vars

-----------------------------------------------------------------------------
(* Claims about the merge-on-write store *)

\* the lines a reader finds in urls.txt (none when the object is absent)
PersistedUrlLines(blob) == IF blob.exists THEN DownloadedUrls(blob) ELSE <<>>
NonBlank(S) == {u \in S : Strip(u) # <<>>}
AllWritersIdle == \A t \in Writers : w_pc[t] = "idle"

\* C1: whenever the concurrent upload_urls_to_gcs calls have ended, whatever
\* their interleaving, the persisted URL set is the previously persisted set
\* united with the entries of every call that returned, without the blank
\* entries, and the persisted list holds no entry twice and no blank entry.
C1_ConcurrentUrlUploadsUnion ==
    AllWritersIdle =>
        LET lines == PersistedUrlLines(urls_blob) IN
        /\ Range(lines) = Range(PersistedUrlLines(urls_prev)) \cup NonBlank(urls_returned)
        /\ Cardinality(Range(lines)) = Len(lines)
        /\ \A i \in DOMAIN lines : Strip(lines[i]) # <<>>

\* two overlapping calls with different lists, one with a blank entry, have
\* both returned on top of a persisted set
C1_Witness ==
    /\ AllWritersIdle
    /\ urls_prev = Blob(UrlsContent({UA}))
    /\ w_arg[1] = <<BlankSpace, UAB>> /\ w_ret[1] = "None"
    /\ w_arg[2] = <<UB, UA>> /\ w_ret[2] = "None"
    /\ Range(PersistedUrlLines(urls_blob)) = {UA, UAB, UB}

\* C4: after upload_image_mapping_to_gcs({X:1}) and then
\* upload_image_mapping_to_gcs({X:2}), both uploaded, the persisted mapping
\* has X -> 2 and every other key persisted before the two calls keeps its
\* value.
C4_MappingLastWriteWins ==
    ( /\ w_pc[1] = "idle"
      /\ mapping_log[1] = << [arg |-> << <<"X", 1>> >>, ret |-> "True"],
                             [arg |-> << <<"X", 2>> >>, ret |-> "True"] >> )
    => LET now == DownloadedMapping(mapping_blob)
           before == DownloadedMapping(mapping_prev)
       IN /\ "X" \in DictKeys(now)
          /\ DictGet(now, "X") = 2
          /\ \A k \in DictKeys(before) \ {"X"} :
                k \in DictKeys(now) /\ DictGet(now, k) = DictGet(before, k)

\* the two calls were made on a mapping that held X with another value and
\* a second key
C4_Witness ==
    /\ w_pc[1] = "idle"
    /\ mapping_log[1] = << [arg |-> << <<"X", 1>> >>, ret |-> "True"],
                           [arg |-> << <<"X", 2>> >>, ret |-> "True"] >>
    /\ mapping_prev = Blob(JsonDumps(<< <<"X", 3>>, <<"Y", 1>> >>))
    /\ DownloadedMapping(mapping_blob) = << <<"X", 2>>, <<"Y", 1>> >>

\* a caller is inside the download-merge-upload sequence
InCritical(t) == w_pc[t] \in {"download", "upload", "release"}

\* C9: at most one caller is inside the download-merge-upload sequence of
\* any of the three upload_* functions, it is the holder of _gcs_lock, and
\* while a caller is between its download and its upload no remote object
\* changes.
C9_MergeIsExclusive ==
    /\ [](/\ Cardinality({t \in Writers : InCritical(t)}) <= 1
          /\ \A t \in Writers : InCritical(t) => gcs_lock = t)
    /\ [][\A t \in Writers :
             (w_pc[t] = "upload" /\ w_pc'[t] = "upload")
             => <<urls_blob, mapping_blob, garments_blob>>' =
                <<urls_blob, mapping_blob, garments_blob>>]_vars

\* a caller of one function waits for the lock while a caller of another
\* function is between its download and its upload
C9_Witness ==
    /\ w_pc[1] = "upload" /\ w_op[1] = "garments"
    /\ w_pc[2] = "lock" /\ w_op[2] = "urls"

-----------------------------------------------------------------------------
(* product_api.py / main_api.py: sessions and the session tracker *)

\* a sessions lock that excludes nobody
SessionsLockIgnored == TRUE

\* threading.Lock _sessions_lock: acquire() goes through only while free
SessionsLockFree == sessions_lock = 0

\* leaving the try block without running the finally clause on an exception
ExitTrySkipsFinally(s, how) ==
    /\ s_pc' = [s_pc EXCEPT ![s] =
                   IF how \in {"exc_download", "exc_batch", "exc_upload"}
                   THEN "done" ELSE "end_lock"]
    /\ s_exit' = [s_exit EXCEPT ![s] = how]

\* try ... finally: every way out of the try block (a return, the except
\* handler's return, an exception that propagates) goes to the finally clause
ExitTry(s, how) ==
    /\ s_pc' = [s_pc EXCEPT ![s] = "end_lock"]
    /\ s_exit' = [s_exit EXCEPT ![s] = how]

\* a step that only moves the session to another position
Goto(s, to) ==
    /\ s_pc' = [s_pc EXCEPT ![s] = to]
    /\ UNCHANGED s_exit

\* an exception raised inside the try block of process_hm_products reaches
\* its "except Exception" clause
Raise(s, what) ==
    /\ s_pc' = [s_pc EXCEPT ![s] = "except"]
    /\ s_exit' = [s_exit EXCEPT ![s] = what]

\* "with _sessions_lock:" at the start of a session, and the read of
\* "_active_sessions += 1", which follows at once under the lock
BeginAcquire(s) ==
    /\ s_pc[s] = "start"
    /\ SessionsLockFree
    /\ sessions_lock' = s
    /\ s_tmp' = [s_tmp EXCEPT ![s] = active_sessions]
    /\ Goto(s, "begin_store")
    /\ UNCHANGED <<app, active_sessions, image_mapping_lock, image_mapping,
                   s_current, s_incs, s_decs, gcs_lock>>

\* the write of "_active_sessions += 1" with the try block entered inside
\* the with-block: the sessions lock is still held in the try block
BeginStoreKeepsLock(s) ==
    /\ s_pc[s] = "begin_store"
    /\ active_sessions' = s_tmp[s] + 1
    /\ s_current' = [s_current EXCEPT ![s] = s_tmp[s] + 1]
    /\ s_incs' = [s_incs EXCEPT ![s] = @ + 1]
    /\ s_tmp' = [s_tmp EXCEPT ![s] = 0]
    /\ Goto(s, IF app = "product_api" THEN "download" ELSE "pages")
    /\ UNCHANGED <<app, sessions_lock, image_mapping_lock, image_mapping, s_decs, gcs_lock>>

\* "_active_sessions += 1": the write, "current_session = _active_sessions",
\* and the end of the with-block; the try block starts
BeginStore(s) ==
    /\ s_pc[s] = "begin_store"
    /\ active_sessions' = s_tmp[s] + 1
    /\ s_current' = [s_current EXCEPT ![s] = s_tmp[s] + 1]
    /\ s_incs' = [s_incs EXCEPT ![s] = @ + 1]
    /\ sessions_lock' = 0
    /\ s_tmp' = [s_tmp EXCEPT ![s] = 0]
    /\ Goto(s, IF app = "product_api" THEN "download" ELSE "pages")
    /\ UNCHANGED <<app, image_mapping_lock, image_mapping, s_decs, gcs_lock>>

sessFrame == <<app, active_sessions, sessions_lock, image_mapping_lock, image_mapping,
               s_tmp, s_current, s_incs, s_decs, gcs_lock>>

\* process_hm_products: download_urls_from_gcs() returns
DownloadUrls(s) ==
    /\ s_pc[s] = "download"
    /\ Goto(s, "validate")
    /\ UNCHANGED sessFrame

\* process_hm_products: download_urls_from_gcs() raises
DownloadUrlsRaises(s) ==
    /\ s_pc[s] = "download"
    /\ Raise(s, "exc_download")
    /\ UNCHANGED sessFrame

\* process_hm_products: the index range is invalid, the early return
RangeInvalid(s) ==
    /\ s_pc[s] = "validate"
    /\ ExitTry(s, "invalid_range")
    /\ UNCHANGED sessFrame

\* process_hm_products: the index range is valid
RangeValid(s) ==
    /\ s_pc[s] = "validate"
    /\ Goto(s, "batches")
    /\ UNCHANGED sessFrame

\* crawl_url, inside a batch: "with _image_mapping_lock:
\* _global_image_mapping[article_id] = url_image" (no await inside)
BatchRecordsImage(s) ==
    /\ s_pc[s] = "batches"
    /\ image_mapping_lock = 0
    /\ image_mapping' = DictSet(image_mapping, "X", 1)
    /\ UNCHANGED <<app, active_sessions, sessions_lock, image_mapping_lock, s_pc, s_tmp,
                   s_current, s_exit, s_incs, s_decs, gcs_lock>>

\* process_hm_products: the batch loop ends, with or without valid content
BatchesDone(s) ==
    /\ s_pc[s] = "batches"
    /\ \E some_valid \in BOOLEAN :
           Goto(s, IF some_valid THEN "garments_lock" ELSE "mapping_lock")
    /\ UNCHANGED sessFrame

\* process_hm_products: the client setup or a batch raises
BatchesRaise(s) ==
    /\ s_pc[s] = "batches"
    /\ Raise(s, "exc_batch")
    /\ UNCHANGED sessFrame

\* upload_processed_garments_to_gcs: "with _gcs_lock:"
GarmentsAcquire(s) ==
    /\ s_pc[s] = "garments_lock"
    /\ LockFree
    /\ gcs_lock' = s
    /\ Goto(s, "garments_cs")
    /\ UNCHANGED <<app, active_sessions, sessions_lock, image_mapping_lock,
                   image_mapping, s_tmp, s_current, s_incs, s_decs>>

\* a garment upload that returns with the merge lock still held: the
\* image-mapping lock is then requested under the merge lock
GarmentsUploadedKeepsLock(s) ==
    /\ s_pc[s] = "garments_cs"
    /\ Goto(s, "mapping_lock")
    /\ UNCHANGED <<app, active_sessions, sessions_lock, image_mapping_lock,
                   image_mapping, s_tmp, s_current, s_incs, s_decs, gcs_lock>>

\* upload_processed_garments_to_gcs returns
GarmentsUploaded(s) ==
    /\ s_pc[s] = "garments_cs"
    /\ gcs_lock' = 0
    /\ Goto(s, "mapping_lock")
    /\ UNCHANGED <<app, active_sessions, sessions_lock, image_mapping_lock,
                   image_mapping, s_tmp, s_current, s_incs, s_decs>>

\* upload_processed_garments_to_gcs raises (a storage error)
GarmentsRaise(s) ==
    /\ s_pc[s] = "garments_cs"
    /\ gcs_lock' = 0
    /\ Raise(s, "exc_upload")
    /\ UNCHANGED <<app, active_sessions, sessions_lock, image_mapping_lock,
                   image_mapping, s_tmp, s_current, s_incs, s_decs>>

\* process_hm_products: "with _image_mapping_lock: if _global_image_mapping:"
MappingLock(s) ==
    /\ s_pc[s] = "mapping_lock"
    /\ image_mapping_lock = 0
    /\ image_mapping_lock' = s
    /\ Goto(s, IF image_mapping # <<>> THEN "mapping_gcs" ELSE "mapping_unlock")
    /\ UNCHANGED <<app, active_sessions, sessions_lock, image_mapping, s_tmp,
                   s_current, s_incs, s_decs, gcs_lock>>

\* upload_image_mapping_to_gcs: "with _gcs_lock:"
MappingAcquire(s) ==
    /\ s_pc[s] = "mapping_gcs"
    /\ LockFree
    /\ gcs_lock' = s
    /\ Goto(s, "mapping_cs")
    /\ UNCHANGED <<app, active_sessions, sessions_lock, image_mapping_lock,
                   image_mapping, s_tmp, s_current, s_incs, s_decs>>

\* upload_image_mapping_to_gcs returns True or False (it raises nothing)
MappingUploaded(s) ==
    /\ s_pc[s] = "mapping_cs"
    /\ gcs_lock' = 0
    /\ Goto(s, "mapping_unlock")
    /\ UNCHANGED <<app, active_sessions, sessions_lock, image_mapping_lock,
                   image_mapping, s_tmp, s_current, s_incs, s_decs>>

\* the end of "with _image_mapping_lock:" and the return of the summary
MappingUnlock(s) ==
    /\ s_pc[s] = "mapping_unlock"
    /\ image_mapping_lock' = 0
    /\ ExitTry(s, "normal")
    /\ UNCHANGED <<app, active_sessions, sessions_lock, image_mapping, s_tmp,
                   s_current, s_incs, s_decs, gcs_lock>>

\* process_hm_products: "except Exception as e:" returns the failure summary
ExceptHandler(s) ==
    /\ s_pc[s] = "except"
    /\ ExitTry(s, s_exit[s])
    /\ UNCHANGED sessFrame

\* scrape_hm_products: the page loop ends with no URL (a failing page is
\* caught inside the loop)
PagesNoUrls(s) ==
    /\ s_pc[s] = "pages"
    /\ ExitTry(s, "no_urls")
    /\ UNCHANGED sessFrame

\* scrape_hm_products: the page loop ends with URLs to upload
PagesFoundUrls(s) ==
    /\ s_pc[s] = "pages"
    /\ Goto(s, "urls_lock")
    /\ UNCHANGED sessFrame

\* upload_urls_to_gcs: "with _gcs_lock:"
UrlsAcquire(s) ==
    /\ s_pc[s] = "urls_lock"
    /\ LockFree
    /\ gcs_lock' = s
    /\ Goto(s, "urls_cs")
    /\ UNCHANGED <<app, active_sessions, sessions_lock, image_mapping_lock,
                   image_mapping, s_tmp, s_current, s_incs, s_decs>>

\* upload_urls_to_gcs returns, scrape_hm_products returns its summary
UrlsUploaded(s) ==
    /\ s_pc[s] = "urls_cs"
    /\ gcs_lock' = 0
    /\ ExitTry(s, "normal")
    /\ UNCHANGED <<app, active_sessions, sessions_lock, image_mapping_lock,
                   image_mapping, s_tmp, s_current, s_incs, s_decs>>

\* upload_urls_to_gcs raises; scrape_hm_products has no except clause, the
\* exception leaves it through the finally clause
UrlsRaise(s) ==
    /\ s_pc[s] = "urls_cs"
    /\ gcs_lock' = 0
    /\ ExitTry(s, "raised")
    /\ UNCHANGED <<app, active_sessions, sessions_lock, image_mapping_lock,
                   image_mapping, s_tmp, s_current, s_incs, s_decs>>

\* finally: "with _sessions_lock:" and the read of "_active_sessions -= 1",
\* which follows at once under the lock
EndAcquire(s) ==
    /\ s_pc[s] = "end_lock"
    /\ SessionsLockFree
    /\ sessions_lock' = s
    /\ s_tmp' = [s_tmp EXCEPT ![s] = active_sessions]
    /\ Goto(s, "end_store")
    /\ UNCHANGED <<app, active_sessions, image_mapping_lock, image_mapping,
                   s_current, s_incs, s_decs, gcs_lock>>

\* "_active_sessions -= 1": the write, and the end of the finally clause:
\* the session has ended
EndStore(s) ==
    /\ s_pc[s] = "end_store"
    /\ active_sessions' = s_tmp[s] - 1
    /\ s_decs' = [s_decs EXCEPT ![s] = @ + 1]
    /\ sessions_lock' = 0
    /\ s_tmp' = [s_tmp EXCEPT ![s] = 0]
    /\ Goto(s, "done")
    /\ UNCHANGED <<app, image_mapping_lock, image_mapping, s_current, s_incs,
                   gcs_lock>>

\* one step of session s
SessionStep(s) ==
    \/ BeginAcquire(s)
    \/ BeginStore(s)
    \/ DownloadUrls(s)
    \/ DownloadUrlsRaises(s)
    \/ RangeInvalid(s)
    \/ RangeValid(s)
    \/ BatchRecordsImage(s)
    \/ BatchesDone(s)
    \/ BatchesRaise(s)
    \/ GarmentsAcquire(s)
    \/ GarmentsUploaded(s)
    \/ GarmentsRaise(s)
    \/ MappingLock(s)
    \/ MappingAcquire(s)
    \/ MappingUploaded(s)
    \/ MappingUnlock(s)
    \/ ExceptHandler(s)
    \/ PagesNoUrls(s)
    \/ PagesFoundUrls(s)
    \/ UrlsAcquire(s)
    \/ UrlsUploaded(s)
    \/ UrlsRaise(s)
    \/ EndAcquire(s)
    \/ EndStore(s)

(* N concurrent sessions of one process, which runs product_api or main_api *)
InitSessions ==
    /\ StoreInit({Absent}, {Absent}, {Absent})
    /\ app \in {"product_api", "main_api"}
    /\ TrackerIdle
    /\ CrawlIdle
    /\ FnIdle
    /\ PageIdle
    /\ WebIdle
    /\ ProcessIdle
NextSessions ==
    /\ \E s \in Sessions : SessionStep(s)
    /\ UNCHANGED <<blobVars, writerVars, crawlVars, procVars, fnVars, pageVars, webVars>>
SpecSessions == InitSessions /\ [][NextSessions]_vars

\* the process does not stop while a session can take a step: threads are
\* scheduled, external calls return or raise, a free lock is taken
FairSessions == SpecSessions /\ WF_vars(NextSessions)

-----------------------------------------------------------------------------
(* Claims about the session tracker *)

AllSessionsEnded == \A s \in Sessions : s_pc[s] = "done"

\* C2: with N concurrent sessions the active-session counter is between 0
\* and N in every reachable state, and it is 0 once all N have ended.
C2_CounterBounds ==
    /\ active_sessions >= 0
    /\ active_sessions <= NumSessions
    /\ AllSessionsEnded => active_sessions = 0

\* all sessions are inside their try block at once, the counter at N;
C2_Witness ==
    /\ active_sessions = NumSessions
    /\ \A s \in Sessions : s_incs[s] = 1 /\ s_decs[s] = 0 /\ s_pc[s] = "batches"

\* C10: a session never decrements without having incremented, makes at
\* most one increment and one decrement, and has made its decrement when it
\* has ended, whatever way it left its try block; and from some point on
\* every session that incremented the counter has decremented it (the
\* counts never decrease, so this says that each increment is eventually
\* followed by its decrement).
C10_EveryBeginHasItsEnd ==
    /\ [](\A s \in Sessions :
             /\ s_decs[s] <= s_incs[s]
             /\ s_incs[s] <= 1
             /\ s_pc[s] = "done" =>
                    /\ s_decs[s] = 1
                    /\ s_exit[s] \in {"normal", "no_urls", "invalid_range", "exc_download",
                                      "exc_batch", "exc_upload", "raised"})
    /\ <>[](\A s \in Sessions : s_incs[s] = 1 /\ s_decs[s] = 1)

\* one session has ended after an exception of the garment upload, the
\* other after the invalid-range return, and both made their decrement
C10_Witness ==
    /\ s_pc[1] = "done" /\ s_exit[1] = "exc_upload" /\ s_decs[1] = 1
    /\ s_pc[2] = "done" /\ s_exit[2] = "invalid_range" /\ s_decs[2] = 1
    /\ active_sessions = 0

-----------------------------------------------------------------------------
(* product_api.py: crawl_url, the retrying fetcher *)

\* largest max_retries a crawl_url call is given
MaxRetries == 3
\* product page URLs: the digit stands for the "productpage.<digits>.html"
\* part of a URL, PB is a URL without it
PA1 == <<"a", "1">>
PA2 == <<"a", "2">>
PB == <<"b">>
PageUrls == {PA1, PA2, PB}
Digits == {"1", "2"}

\* extract_product_id: the digits of the productpage part, None if absent
ExtractProductId(url) ==
    IF \E i \in DOMAIN url : url[i] \in Digits
    THEN SelectSeq(url, LAMBDA c : c \in Digits)
    ELSE NoneVal

\* the image URL extract_urls_from_markdown finds on a product page
PageImage == 1

RECURSIVE Pow2(_)
Pow2(n) == IF n = 0 THEN 1 ELSE 2 * Pow2(n - 1)

\* a loop that runs once more than range(max_retries)
MoreAttemptsOffByOne(attempt, max) == attempt <= max

\* "for attempt in range(max_retries)": is there an iteration for attempt
MoreAttempts(attempt, max) == attempt < max

\* "if attempt == max_retries - 1"
LastAttempt(attempt, max) == attempt = max - 1

\* a crawl_url call that has just been created by process_batch.
\*   attempt      the loop variable
\*   fetches      history: number of crawler.arun calls made
\*   failures     history: number of attempts that failed
\*   succeeded_at history: the fetch that first reported result.success (0: none)
\*   slept        history: seconds slept since the last attempt ended
\*   rank         history: position in the order of completion within the batch
\*   llm_raised   history: extract_sections_from_markdown_openai has raised
NewTask(url) ==
    [url |-> url, pc |-> "loop", attempt |-> 0, fetches |-> 0, failures |-> 0,
     succeeded_at |-> 0, slept |-> 0, rank |-> 0, llm_raised |-> FALSE,
     result |-> NoneVal]

\* "return value" of call j
Returned(j, t, value) ==
    [t EXCEPT !.pc = "returned", !.result = value,
              !.rank = 1 + Cardinality({k \in DOMAIN tasks : tasks[k].pc = "returned"})]

\* everything but the crawl_url calls and the image mapping they record
crawlFrame == <<blobVars, gcs_lock, writerVars, app, active_sessions, sessions_lock,
                image_mapping_lock, s_pc, s_tmp, s_current, s_exit, s_incs, s_decs,
                max_retries, procVars, fnVars, pageVars, webVars>>

\* the head of the loop: the next crawler.arun() is started, or the loop is
\* exhausted and line 72 returns None
LoopHead(j) ==
    LET t == tasks[j] IN
    /\ t.pc = "loop"
    /\ tasks' = [tasks EXCEPT ![j] =
           IF MoreAttempts(t.attempt, max_retries)
           THEN [t EXCEPT !.pc = "fetch", !.fetches = @ + 1]
           ELSE Returned(j, t, NoneVal)]
    /\ UNCHANGED <<image_mapping, crawlFrame>>

\* "except Exception as e:": the last attempt returns None, any other goes
\* to "await asyncio.sleep(2 ** attempt)"
ExceptClause(j, t) ==
    IF LastAttempt(t.attempt, max_retries)
    THEN Returned(j, [t EXCEPT !.failures = @ + 1, !.slept = 0], NoneVal)
    ELSE [t EXCEPT !.failures = @ + 1, !.slept = 0, !.pc = "sleep"]

\* the crawler raises (AsyncWebCrawler setup or crawler.arun)
FetchRaises(j) ==
    /\ tasks[j].pc = "fetch"
    /\ tasks' = [tasks EXCEPT ![j] = ExceptClause(j, tasks[j])]
    /\ UNCHANGED <<image_mapping, crawlFrame>>

\* result.success is false: the else branch. The last attempt returns None;
\* any other attempt falls out of the try statement and the loop goes on
FetchUnsuccessful(j) ==
    LET t == [tasks[j] EXCEPT !.failures = @ + 1, !.slept = 0] IN
    /\ tasks[j].pc = "fetch"
    /\ tasks' = [tasks EXCEPT ![j] =
           IF LastAttempt(t.attempt, max_retries)
           THEN Returned(j, t, NoneVal)
           ELSE [t EXCEPT !.attempt = @ + 1, !.pc = "loop"]]
    /\ UNCHANGED <<image_mapping, crawlFrame>>

\* the fetch that has just reported result.success
Succeeded(t) ==
    [t EXCEPT !.succeeded_at = IF @ = 0 THEN t.fetches ELSE @, !.slept = 0]

\* result.success, and between_size_and_material finds no span: return None
NoSpan(j) ==
    /\ tasks[j].pc = "fetch"
    /\ tasks' = [tasks EXCEPT ![j] = Returned(j, Succeeded(tasks[j]), NoneVal)]
    /\ UNCHANGED <<image_mapping, crawlFrame>>

\* result.success, a span is found, and the page has no image:
\* extract_urls_from_markdown raises IndexError, caught by the except clause
NoImage(j) ==
    /\ tasks[j].pc = "fetch"
    /\ tasks' = [tasks EXCEPT ![j] = ExceptClause(j, Succeeded(tasks[j]))]
    /\ UNCHANGED <<image_mapping, crawlFrame>>

\* "if url_image and article_id: with _image_mapping_lock:
\*  _global_image_mapping[article_id] = url_image"
RecordImage(url) ==
    LET article_id == ExtractProductId(url) IN
    IF article_id # NoneVal
    THEN /\ image_mapping_lock = 0
         /\ image_mapping' = DictSet(image_mapping, article_id[1], PageImage)
    ELSE UNCHANGED image_mapping

\* result.success, span and image are found, the image is recorded, and
\* extract_sections_from_markdown_openai raises: caught by the except clause
LlmRaises(j) ==
    /\ tasks[j].pc = "fetch"
    /\ RecordImage(tasks[j].url)
    /\ tasks' = [tasks EXCEPT ![j] =
           ExceptClause(j, [Succeeded(tasks[j]) EXCEPT !.llm_raised = TRUE])]
    /\ UNCHANGED crawlFrame

\* result.success, span and image are found, the image is recorded, and the
\* text extract_sections_from_markdown_openai builds is returned
Extracted(j) ==
    /\ tasks[j].pc = "fetch"
    /\ RecordImage(tasks[j].url)
    /\ tasks' = [tasks EXCEPT ![j] =
           Returned(j, Succeeded(tasks[j]),
                    GarmentText(ExtractProductId(tasks[j].url)[1]))]
    /\ UNCHANGED crawlFrame

\* "await asyncio.sleep(2 ** attempt)" ends, the loop goes on
Wake(j) ==
    LET t == tasks[j] IN
    /\ t.pc = "sleep"
    /\ tasks' = [tasks EXCEPT ![j] =
           [t EXCEPT !.slept = Pow2(t.attempt), !.attempt = @ + 1, !.pc = "loop"]]
    /\ UNCHANGED <<image_mapping, crawlFrame>>

\* one step of the crawl_url call j
CrawlStep(j) ==
    \/ LoopHead(j)
    \/ FetchRaises(j)
    \/ FetchUnsuccessful(j)
    \/ NoSpan(j)
    \/ NoImage(j)
    \/ LlmRaises(j)
    \/ Extracted(j)
    \/ Wake(j)

\* the URL lists process_batch is given
CrawlBatches == { <<PA1>>, <<PB>>, <<PB, PA1>>, <<PA1, PA2>> }

(* crawl_url calls running concurrently, as process_batch starts them, for   *)
(* any max_retries                                                           *)
InitCrawl ==
    /\ StoreInit({Absent}, {Absent}, {Absent})
    /\ app = "product_api"
    /\ TrackerIdle
    /\ ProcessIdle
    /\ FnIdle
    /\ PageIdle
    /\ WebIdle
    /\ max_retries \in 0..MaxRetries
    /\ \E urls \in CrawlBatches : tasks = [i \in DOMAIN urls |-> NewTask(urls[i])]
NextCrawl == \E j \in DOMAIN tasks : CrawlStep(j)
SpecCrawl == InitCrawl /\ [][NextCrawl]_vars

-----------------------------------------------------------------------------
(* Claims about crawl_url *)

\* C5: crawl_url makes at most max_retries fetch attempts; when every
\* attempt failed (by an exception or an unsuccessful result) it has made
\* exactly max_retries attempts when it returns, and it returns None; a call
\* ends only by returning a value (None or the extracted text), it raises
\* nothing to its caller.
C5_AtMostMaxRetriesThenNone ==
    \A j \in DOMAIN tasks :
        LET t == tasks[j] IN
        /\ t.fetches <= max_retries
        /\ t.pc \in {"loop", "fetch", "sleep", "returned"}
        /\ t.pc = "returned" /\ t.failures = t.fetches =>
               t.fetches = max_retries /\ t.result = NoneVal
        /\ t.pc = "returned" =>
               t.result \in {NoneVal, GarmentText(ExtractProductId(t.url)[1])}

C5_Witness ==
    /\ max_retries = DefaultMaxRetries
    /\ \E j \in DOMAIN tasks :
           /\ tasks[j].pc = "returned"
           /\ tasks[j].fetches = max_retries
           /\ tasks[j].failures = max_retries
           /\ tasks[j].slept = 0
           /\ tasks[j].result = NoneVal

\* C6: whenever an attempt failed (by an exception or by an unsuccessful
\* result) and another attempt starts, the call has slept 2^attempt seconds
\* in between, attempt being the number of the failed attempt counted from 0.
C6_SleepsBeforeEveryRetry ==
    \A j \in DOMAIN tasks :
        tasks[j].pc = "fetch" /\ tasks[j].attempt > 0 =>
            tasks[j].slept = Pow2(tasks[j].attempt - 1)

\* C7: once a fetch reported success the call returns on that attempt: it
\* makes no further fetch.
C7_NoFetchAfterSuccess ==
    \A j \in DOMAIN tasks :
        tasks[j].succeeded_at > 0 =>
            tasks[j].pc = "returned" /\ tasks[j].fetches = tasks[j].succeeded_at

-----------------------------------------------------------------------------
(* product_api.py: one /process request, from process_endpoint to the answer *)

\* largest start_index / end_index of a request
MaxIndex == 3
\* largest batch_size of a request, next to one above the allowed maximum
MaxBatchSize == 3

\* process_endpoint: max_urls_per_request
MaxUrlsPerRequest == 100
\* process_endpoint: the largest batch_size accepted
MaxBatchSizeAllowed == 20

\* process_endpoint: the batch_size of a request that gives none
DefaultBatchSize == 5

\* a default that runs the URLs one by one
BatchSizeDefaultOne(data) ==
    IF "batch_size" \in DOMAIN data THEN data.batch_size ELSE 1

\* batch_size = data.get('batch_size', 5)
BatchSize(data) ==
    IF "batch_size" \in DOMAIN data THEN data.batch_size ELSE DefaultBatchSize

\* the request bodies: integers for start_index, end_index and batch_size
Requests ==
    [start_index : (-1)..MaxIndex,
     end_index : (-1)..MaxIndex \cup {MaxUrlsPerRequest},
     batch_size : 0..MaxBatchSize \cup {MaxBatchSizeAllowed + 1}]

\* the checks without the limit on the size of the range
BadRequestNoCap(r) ==
    \/ r.start_index < 0
    \/ r.end_index < r.start_index
    \/ BatchSize(r) < 1
    \/ BatchSize(r) > MaxBatchSizeAllowed

\* process_endpoint: the checks that answer 400
BadRequest(r) ==
    \/ r.start_index < 0
    \/ r.end_index < r.start_index
    \/ r.end_index - r.start_index + 1 > MaxUrlsPerRequest
    \/ BatchSize(r) < 1
    \/ BatchSize(r) > MaxBatchSizeAllowed

\* process_hm_products: "Validate indices"
InvalidRange(r, all_urls) ==
    \/ r.start_index < 0
    \/ r.end_index >= Len(all_urls)
    \/ r.start_index > r.end_index

\* items[i:i + batch_size] for i in range(i, len(items), batch_size)
RECURSIVE CreateBatchesFrom(_, _, _)
CreateBatchesFrom(items, batch_size, i) ==
    IF i >= Len(items) THEN <<>>
    ELSE <<SubSeq(items, i + 1, IF i + batch_size < Len(items) THEN i + batch_size
                                ELSE Len(items))>>
         \o CreateBatchesFrom(items, batch_size, i + batch_size)

\* batches of full size only: the rest of the list is dropped
CreateBatchesNoRemainder(items, batch_size) ==
    CreateBatchesFrom(SubSeq(items, 1, Len(items) - (Len(items) % batch_size)),
                      batch_size, 0)

\* create_batches(items, batch_size), as the list of what it yields
CreateBatches(items, batch_size) == CreateBatchesFrom(items, batch_size, 0)

\* the number of full batches only
NumBatchesFloor(n, batch_size) == n \div batch_size

\* the right-hand side of the cooldown test:
\* len(urls_to_process) // batch_size + (1 if len(urls_to_process) % batch_size else 0)
NumBatchesExpr(n, batch_size) ==
    (n \div batch_size) + (IF n % batch_size # 0 THEN 1 ELSE 0)

\* no filter: every entry counts as valid
ValidContentUnfiltered(all_content) == all_content

\* [content for content in all_content if content is not None]
ValidContent(all_content) == SelectSeq(all_content, LAMBDA c : c.val # NoneVal)

\* the Python values of a list of results (an entry carries, next to its
\* value val, the history of the crawl_url call that produced it)
Values(content) == [i \in DOMAIN content |-> content[i].val]

\* the two dicts process_hm_products returns
FailureSummary == [returned |-> TRUE, success |-> FALSE, products_processed |-> 0]
SuccessSummary(valid_content, failed_count, total) ==
    [returned |-> TRUE, success |-> TRUE, products_processed |-> Len(valid_content),
     products_failed |-> failed_count, total_urls_in_range |-> total]

\* the bodies urls.txt can hold when /process runs: absent, or what
\* upload_urls_to_gcs wrote for a set of product pages
ProcessUrlsStates == {Absent} \cup {Blob(UrlsContent(S)) : S \in SUBSET PageUrls}

storeAll == <<blobVars, gcs_lock, writerVars>>
trackerRest == <<app, active_sessions, sessions_lock, s_tmp, s_current, s_incs, s_decs>>

\* process_endpoint answers 400: process_hm_products is not run
P_Reject ==
    /\ s_pc[1] = "request"
    /\ BadRequest(p_req)
    /\ p_status' = 400
    /\ Goto(1, "answered")
    /\ UNCHANGED <<storeAll, trackerRest, fnVars, pageVars, webVars, image_mapping_lock, image_mapping, crawlVars,
                   p_req, p_all_urls, p_urls, p_all_content, p_batch_num, p_cooldowns,
                   p_summary>>

\* process_endpoint: asyncio.run(process_hm_products(...))
P_Accept ==
    /\ s_pc[1] = "request"
    /\ ~BadRequest(p_req)
    /\ Goto(1, "start")
    /\ UNCHANGED <<storeAll, trackerRest, fnVars, pageVars, webVars, image_mapping_lock, image_mapping, crawlVars,
                   procVars>>

\* all_urls = download_urls_from_gcs(); NotFound is not caught there
P_Download ==
    /\ s_pc[1] = "download"
    /\ IF urls_blob.exists
       THEN /\ p_all_urls' = DownloadedUrls(urls_blob)
            /\ Goto(1, "validate")
       ELSE /\ Raise(1, "exc_download")
            /\ UNCHANGED p_all_urls
    /\ UNCHANGED <<storeAll, trackerRest, fnVars, pageVars, webVars, image_mapping_lock, image_mapping, crawlVars,
                   p_req, p_status, p_urls, p_all_content, p_batch_num, p_cooldowns,
                   p_summary>>

\* download_urls_from_gcs() raises an error of the storage client
P_DownloadRaises ==
    /\ s_pc[1] = "download"
    /\ Raise(1, "exc_download")
    /\ UNCHANGED <<storeAll, trackerRest, fnVars, pageVars, webVars, image_mapping_lock, image_mapping, crawlVars,
                   procVars>>

\* "Validate indices" and urls_to_process = all_urls[start_index:end_index + 1]
P_Validate ==
    /\ s_pc[1] = "validate"
    /\ IF InvalidRange(p_req, p_all_urls)
       THEN /\ p_summary' = FailureSummary
            /\ ExitTry(1, "invalid_range")
            /\ UNCHANGED p_urls
       ELSE /\ p_urls' = SubSeq(p_all_urls, p_req.start_index + 1, p_req.end_index + 1)
            /\ Goto(1, "setup")
            /\ UNCHANGED p_summary
    /\ UNCHANGED <<storeAll, trackerRest, fnVars, pageVars, webVars, image_mapping_lock, image_mapping, crawlVars,
                   p_req, p_status, p_all_urls, p_all_content, p_batch_num, p_cooldowns>>

\* client = OpenAI(...), the crawler configs, all_content = []
P_Setup ==
    /\ s_pc[1] = "setup"
    /\ p_all_content' = <<>>
    /\ Goto(1, "next_batch")
    /\ UNCHANGED <<storeAll, trackerRest, fnVars, pageVars, webVars, image_mapping_lock, image_mapping, crawlVars,
                   p_req, p_status, p_all_urls, p_urls, p_batch_num, p_cooldowns,
                   p_summary>>

\* OpenAI(api_key=...) raises (no key configured)
P_SetupRaises ==
    /\ s_pc[1] = "setup"
    /\ Raise(1, "exc_batch")
    /\ UNCHANGED <<storeAll, trackerRest, fnVars, pageVars, webVars, image_mapping_lock, image_mapping, crawlVars,
                   procVars>>

\* the head of the batch loop: the generator yields the next batch and
\* process_batch creates one crawl_url call per URL, or the loop ends
P_NextBatch ==
    LET batches == CreateBatches(p_urls, BatchSize(p_req)) IN
    /\ s_pc[1] = "next_batch"
    /\ IF p_batch_num < Len(batches)
       THEN /\ p_batch_num' = p_batch_num + 1
            /\ tasks' = [i \in DOMAIN batches[p_batch_num + 1] |->
                            NewTask(batches[p_batch_num + 1][i])]
            /\ Goto(1, "gather")
       ELSE /\ Goto(1, "finish")
            /\ UNCHANGED <<p_batch_num, tasks>>
    /\ UNCHANGED <<storeAll, trackerRest, fnVars, pageVars, webVars, image_mapping_lock, image_mapping, max_retries,
                   p_req, p_status, p_all_urls, p_urls, p_all_content, p_cooldowns,
                   p_summary>>

\* a wait that ends with the first call that returns
GatherFirstCompleted(ts) == \E j \in DOMAIN ts : ts[j].pc = "returned"

\* await asyncio.gather(*tasks): every call has returned
GatherDone(ts) == \A j \in DOMAIN ts : ts[j].pc = "returned"

\* asyncio.gather(*tasks) returns the results in the order of the calls,
\* all_content.extend(batch_results), and the cooldown test
P_Gathered ==
    /\ s_pc[1] = "gather"
    /\ GatherDone(tasks)
    /\ p_all_content' = p_all_content \o
           [j \in DOMAIN tasks |-> [url |-> tasks[j].url, val |-> tasks[j].result,
                                    fetches |-> tasks[j].fetches, rank |-> tasks[j].rank,
                                    llm_raised |-> tasks[j].llm_raised]]
    /\ tasks' = <<>>
    /\ Goto(1, IF p_batch_num < NumBatchesExpr(Len(p_urls), BatchSize(p_req))
               THEN "cooldown" ELSE "next_batch")
    /\ UNCHANGED <<storeAll, trackerRest, fnVars, pageVars, webVars, image_mapping_lock, image_mapping, max_retries,
                   p_req, p_status, p_all_urls, p_urls, p_batch_num, p_cooldowns,
                   p_summary>>

\* "await asyncio.sleep(2)" between two batches
P_Cooldown ==
    /\ s_pc[1] = "cooldown"
    /\ p_cooldowns' = p_cooldowns + 1
    /\ Goto(1, "next_batch")
    /\ UNCHANGED <<storeAll, trackerRest, fnVars, pageVars, webVars, image_mapping_lock, image_mapping, crawlVars,
                   p_req, p_status, p_all_urls, p_urls, p_all_content, p_batch_num,
                   p_summary>>

\* an upload of the garments made as soon as a batch has been gathered,
\* with batches still to run
P_FinishAfterAnyBatch ==
    LET valid_content == ValidContent(p_all_content) IN
    /\ s_pc[1] \in {"finish", "cooldown"}
    /\ IF valid_content # <<>>
       THEN /\ Invoke(1, "garments", Values(valid_content), 2)
            /\ Goto(1, "garments_wait")
       ELSE /\ Goto(1, "mapping_lock")
            /\ UNCHANGED storeAll
    /\ UNCHANGED <<trackerRest, fnVars, pageVars, webVars, image_mapping_lock, image_mapping, crawlVars, procVars>>

\* after the loop: valid_content, and "if valid_content:
\* upload_processed_garments_to_gcs(valid_content)" is entered
P_Finish ==
    LET valid_content == ValidContent(p_all_content) IN
    /\ s_pc[1] = "finish"
    /\ IF valid_content # <<>>
       THEN /\ Invoke(1, "garments", Values(valid_content), 2)
            /\ Goto(1, "garments_wait")
       ELSE /\ Goto(1, "mapping_lock")
            /\ UNCHANGED storeAll
    /\ UNCHANGED <<trackerRest, fnVars, pageVars, webVars, image_mapping_lock, image_mapping, crawlVars, procVars>>

\* upload_processed_garments_to_gcs returns, or its exception reaches the
\* except clause of process_hm_products
P_GarmentsReturned ==
    /\ s_pc[1] = "garments_wait"
    /\ w_pc[1] = "idle"
    /\ IF w_ret[1] = "raised" THEN Raise(1, "exc_upload") ELSE Goto(1, "mapping_lock")
    /\ UNCHANGED <<storeAll, trackerRest, fnVars, pageVars, webVars, image_mapping_lock, image_mapping, crawlVars,
                   procVars>>

\* "with _image_mapping_lock: if _global_image_mapping:
\* upload_image_mapping_to_gcs(_global_image_mapping)" is entered
P_MappingLock ==
    /\ s_pc[1] = "mapping_lock"
    /\ image_mapping_lock = 0
    /\ image_mapping_lock' = 1
    /\ IF image_mapping # <<>>
       THEN /\ Invoke(1, "mapping", image_mapping, 2)
            /\ Goto(1, "mapping_wait")
       ELSE /\ Goto(1, "summary")
            /\ UNCHANGED storeAll
    /\ UNCHANGED <<trackerRest, fnVars, pageVars, webVars, image_mapping, crawlVars, procVars>>

\* upload_image_mapping_to_gcs returns True or False; the value is not used
P_MappingReturned ==
    /\ s_pc[1] = "mapping_wait"
    /\ w_pc[1] = "idle"
    /\ Goto(1, "summary")
    /\ UNCHANGED <<storeAll, trackerRest, fnVars, pageVars, webVars, image_mapping_lock, image_mapping, crawlVars,
                   procVars>>

\* the end of "with _image_mapping_lock:" and the return of the summary
P_Return ==
    LET valid_content == ValidContent(p_all_content)
        failed_count == Len(p_all_content) - Len(valid_content) IN
    /\ s_pc[1] = "summary"
    /\ image_mapping_lock' = 0
    /\ p_summary' = SuccessSummary(valid_content, failed_count, Len(p_urls))
    /\ ExitTry(1, "normal")
    /\ UNCHANGED <<storeAll, trackerRest, fnVars, pageVars, webVars, image_mapping, crawlVars, p_req, p_status,
                   p_all_urls, p_urls, p_all_content, p_batch_num, p_cooldowns>>

\* "except Exception as e:" returns the failure dict
P_Except ==
    /\ s_pc[1] = "except"
    /\ p_summary' = FailureSummary
    /\ ExitTry(1, s_exit[1])
    /\ UNCHANGED <<storeAll, trackerRest, fnVars, pageVars, webVars, image_mapping_lock, image_mapping, crawlVars,
                   p_req, p_status, p_all_urls, p_urls, p_all_content, p_batch_num,
                   p_cooldowns>>

\* process_endpoint: "return jsonify(result)"
P_Answer ==
    /\ s_pc[1] = "done"
    /\ p_status' = 200
    /\ Goto(1, "answered")
    /\ UNCHANGED <<storeAll, trackerRest, fnVars, pageVars, webVars, image_mapping_lock, image_mapping, crawlVars,
                   p_req, p_all_urls, p_urls, p_all_content, p_batch_num, p_cooldowns,
                   p_summary>>

\* one step of the request outside crawl_url, the session counter and the store
ProcessStep ==
    \/ P_Reject
    \/ P_Accept
    \/ P_Download
    \/ P_DownloadRaises
    \/ P_Validate
    \/ P_Setup
    \/ P_SetupRaises
    \/ P_NextBatch
    \/ P_Gathered
    \/ P_Cooldown
    \/ P_Finish
    \/ P_GarmentsReturned
    \/ P_MappingLock
    \/ P_MappingReturned
    \/ P_Return
    \/ P_Except
    \/ P_Answer

\* the session counter of the request: process_hm_products before its try
\* block and in its finally clause
TrackerStep ==
    /\ BeginAcquire(1) \/ BeginStore(1) \/ EndAcquire(1) \/ EndStore(1)
    /\ UNCHANGED <<blobVars, writerVars, crawlVars, procVars, fnVars, pageVars, webVars>>

\* a step inside the upload_* call the request is in
UploadStep ==
    /\ StoreStep(1)
    /\ UNCHANGED <<sessVars, crawlVars, procVars, fnVars, pageVars, webVars>>

(* One /process request on a process that serves nothing else *)
InitProcess ==
    /\ StoreInit(ProcessUrlsStates, {Absent}, {Absent})
    /\ app = "product_api"
    /\ active_sessions = 0
    /\ sessions_lock = 0
    /\ image_mapping_lock = 0
    /\ image_mapping = <<>>
    /\ s_pc = [s \in Sessions |-> IF s = 1 THEN "request" ELSE "start"]
    /\ s_tmp = [s \in Sessions |-> 0]
    /\ s_current = [s \in Sessions |-> 0]
    /\ s_exit = [s \in Sessions |-> "none"]
    /\ s_incs = [s \in Sessions |-> 0]
    /\ s_decs = [s \in Sessions |-> 0]
    /\ CrawlIdle
    /\ FnIdle
    /\ PageIdle
    /\ WebIdle
    /\ p_req \in Requests
    /\ p_status = 0
    /\ p_all_urls = <<>>
    /\ p_urls = <<>>
    /\ p_all_content = <<>>
    /\ p_batch_num = 0
    /\ p_cooldowns = 0
    /\ p_summary = NoSummary
NextProcess ==
    \/ ProcessStep
    \/ TrackerStep
    \/ UploadStep
    \/ \E j \in DOMAIN tasks : CrawlStep(j)
SpecProcess == InitProcess /\ [][NextProcess]_vars

-----------------------------------------------------------------------------
(* Claims about the batch loop of a /process request *)

\* the smallest k with k * b >= n
Ceil(n, b) == CHOOSE k \in 0..n : k * b >= n /\ (k = 0 \/ (k - 1) * b < n)

\* the batch loop has ended without an exception
AfterBatchLoop ==
    s_pc[1] \in {"finish", "garments_wait", "mapping_lock", "mapping_wait", "summary"}

\* C3: for every batch size b >= 1 and every list of n URLs the batch loop
\* runs exactly ceil(n/b) batches and collects exactly n results, and result
\* i is the result of the crawl_url call made for URL i, in whatever order
\* the calls of a batch completed.
C3_BatchesCoverInputInOrder ==
    LET n == Len(p_urls)
        b == BatchSize(p_req)
    IN  /\ \A i \in DOMAIN p_all_content :
               i <= n /\ p_all_content[i].url = p_urls[i]
        /\ AfterBatchLoop =>
               /\ b >= 1
               /\ p_batch_num = Ceil(n, b)
               /\ Len(p_all_content) = n

\* three URLs in batches of two, the second call of the first batch having
\* completed before the first
C3_Witness ==
    /\ s_pc[1] = "finish"
    /\ Len(p_urls) = 3
    /\ p_req.batch_size = 2
    /\ p_batch_num = 2
    /\ Len(p_all_content) = 3
    /\ p_all_content[1].rank = 2
    /\ p_all_content[2].rank = 1

\* the number of None entries of a list of results
Nulls(content) == Cardinality({i \in DOMAIN content : content[i].val = NoneVal})

\* C8: a None result of one URL stops neither its batch nor a later batch:
\* when process_hm_products returns its summary of the run (lines 165-173),
\* a crawl_url call has been made, and has fetched, for every URL of the
\* range, products_processed + products_failed = total_urls_in_range, and
\* products_failed is the number of None results.
C8_NullResultsAreCountedNotEscalated ==
    p_summary.returned /\ p_summary.success =>
        /\ p_summary.total_urls_in_range = p_req.end_index - p_req.start_index + 1
        /\ p_summary.products_processed + p_summary.products_failed
               = p_summary.total_urls_in_range
        /\ p_summary.products_failed = Nulls(p_all_content)
        /\ \A i \in 1..p_summary.total_urls_in_range :
               /\ i \in DOMAIN p_all_content
               /\ p_all_content[i].url = p_all_urls[p_req.start_index + i]
               /\ p_all_content[i].fetches >= 1

\* three URLs in batches of two: the first URL gives None after three failed
\* attempts, the other URL of its batch and the URL of the next batch give text
C8_Witness ==
    /\ p_status = 200
    /\ p_summary.returned
    /\ p_summary.success
    /\ p_req.batch_size = 2
    /\ p_summary.total_urls_in_range = 3
    /\ p_summary.products_failed = 1
    /\ p_summary.products_processed = 2
    /\ p_all_content[1].val = NoneVal
    /\ p_all_content[1].fetches = 3
    /\ p_all_content[2].val # NoneVal
    /\ p_all_content[3].val # NoneVal

-----------------------------------------------------------------------------
(* Claims about what a /process request persists *)

\* the lines of the garment log, each stripped, as the consumers read them
\* (download_processed_garments_from_gcs, then item.strip())
LogLines(blob) ==
    IF blob.exists
    THEN [i \in DOMAIN SplitLines(blob.body) |-> Strip(SplitLines(blob.body)[i])]
    ELSE <<>>

\* the "Article ID" line of the record crawl_url builds for a URL
ArticleLine(url) == <<ExtractProductId(url)[1]>>

\* C11: when the LLM structuring pass raised for a URL, crawl_url returns
\* None for that URL, and no record of that URL, complete or partial, is in
\* the persisted garment log.
C11_LlmFailureGivesNullAndNoRecord ==
    /\ \A j \in DOMAIN tasks :
           tasks[j].llm_raised /\ tasks[j].pc = "returned" =>
               tasks[j].result = NoneVal
    /\ \A i \in DOMAIN p_all_content :
           p_all_content[i].llm_raised =>
               /\ p_all_content[i].val = NoneVal
               /\ ArticleLine(p_all_content[i].url) \notin Range(LogLines(garments_blob))

-----------------------------------------------------------------------------
(* upload_data.py: the consumer of the garment log *)

\* item.startswith('Article ID:'): in the text of a record the article id
\* stands for the whole "Article ID: <id>" line
IsArticleIdLine(item) == item # <<>> /\ item[1] \in Digits \cup {"None"}

\* item.startswith('Sizes & Availability:') and the like: "f" stands for a
\* field line of a record
IsFieldLine(item) == item # <<>> /\ item[1] = "f"

\* the loop of parse_garments_to_structured_format over the items that are
\* left, with current_garment and structured_garments
RECURSIVE ParseFrom(_, _, _)
ParseFrom(items, current_garment, structured_garments) ==
    LET flushed == IF current_garment # <<>>
                   THEN Append(structured_garments, current_garment)
                   ELSE structured_garments
    IN  IF items = <<>> THEN flushed
        ELSE LET item == Strip(Head(items)) IN
             IF item = <<>> THEN ParseFrom(Tail(items), <<>>, flushed)
             ELSE IF IsArticleIdLine(item)
             THEN ParseFrom(Tail(items), DictSet(current_garment, "article_id", item),
                            structured_garments)
             ELSE IF IsFieldLine(item)
             THEN ParseFrom(Tail(items),
                            DictSet(current_garment, "sizes_availability", item),
                            structured_garments)
             ELSE ParseFrom(Tail(items), current_garment, structured_garments)

\* parse_garments_to_structured_format(garment_data)
ParseGarments(garment_data) == ParseFrom(garment_data, <<>>, <<>>)

\* download_processed_garments_from_gcs()
DownloadedGarments(blob) == IF blob.exists THEN SplitLines(blob.body) ELSE <<>>

-----------------------------------------------------------------------------
(* Claims about the garment log *)

\* the records of a list passed to upload_processed_garments_to_gcs
Records(garments) == SelectSeq(garments, LAMBDA g : g # NoneVal)

\* the article ids of a list of parsed garments
ParsedIds(structured) == [i \in DOMAIN structured |-> DictGet(structured[i], "article_id")]

\* the article ids of a list of record texts
RecordIds(records) == [i \in DOMAIN records |-> <<records[i][1]>>]

\* no upload_processed_garments_to_gcs call has uploaded without having returned
NoGarmentsCallInFlight ==
    \A t \in Writers : ~(w_op[t] = "garments" /\ w_pc[t] = "release")

\* C12: every record appended to the garment log, over any sequence of
\* upload_processed_garments_to_gcs calls, is recovered as its own record by
\* parse_garments_to_structured_format: the parsed records are as many as the
\* records appended, and they carry the article ids of those records in
\* order (no record's fields are overwritten by a later record's).
C12_ParserRecoversEveryRecord ==
    NoGarmentsCallInFlight =>
        LET parsed == ParseGarments(DownloadedGarments(garments_blob))
            before == ParseGarments(DownloadedGarments(garments_prev))
        IN  /\ Len(parsed) = Len(before) + Len(Records(garments_log))
            /\ ParsedIds(parsed) = ParsedIds(before) \o RecordIds(Records(garments_log))

\* the non-blank lines of a list of lines, each stripped
RECURSIVE NonBlankLines(_)
NonBlankLines(lines) ==
    IF lines = <<>> THEN <<>>
    ELSE IF Strip(Head(lines)) = <<>> THEN NonBlankLines(Tail(lines))
    ELSE <<Strip(Head(lines))>> \o NonBlankLines(Tail(lines))

\* the non-blank lines of the texts of a list of records, one after the other
RECURSIVE RecordLines(_)
RecordLines(records) ==
    IF records = <<>> THEN <<>>
    ELSE NonBlankLines(Split(Head(records))) \o RecordLines(Tail(records))

-----------------------------------------------------------------------------
(* product_api.py: the validation of /process requests *)

\* the URL "aa...a" of k characters
Unary(k) == [i \in 1..k |-> "a"]

\* urls.txt holding one URL more than a request may cover
ManyUrlsBlob == Blob(UrlsContent({Unary(k) : k \in 1..(MaxUrlsPerRequest + 1)}))

\* request bodies around the limits of the validation: with and without a
\* batch_size, ranges of one, two, 101 and 151 URLs
EndpointRequests ==
    [start_index : {-1, 0}, end_index : {-1, 0, 1, MaxUrlsPerRequest, 150},
     batch_size : {-1, 0, 1, MaxBatchSizeAllowed, MaxBatchSizeAllowed + 1, 25}]
    \cup [start_index : {-1, 0}, end_index : {-1, 0, 1, MaxUrlsPerRequest, 150}]

\* the requests for more URLs than one request may cover
OverRangeRequests ==
    {r \in EndpointRequests : r.end_index - r.start_index + 1 > MaxUrlsPerRequest}

(* One /process request: the request bodies around the limits on a URL list  *)
(* that is absent or short, and the requests for too large a range on a URL  *)
(* list that is long enough to hold the range                                *)
InitEndpoint ==
    /\ \/ StoreInit(ProcessUrlsStates, {Absent}, {Absent}) /\ p_req \in EndpointRequests
       \/ StoreInit({ManyUrlsBlob}, {Absent}, {Absent}) /\ p_req \in OverRangeRequests
    /\ app = "product_api"
    /\ active_sessions = 0
    /\ sessions_lock = 0
    /\ image_mapping_lock = 0
    /\ image_mapping = <<>>
    /\ s_pc = [s \in Sessions |-> IF s = 1 THEN "request" ELSE "start"]
    /\ s_tmp = [s \in Sessions |-> 0]
    /\ s_current = [s \in Sessions |-> 0]
    /\ s_exit = [s \in Sessions |-> "none"]
    /\ s_incs = [s \in Sessions |-> 0]
    /\ s_decs = [s \in Sessions |-> 0]
    /\ CrawlIdle
    /\ FnIdle
    /\ PageIdle
    /\ WebIdle
    /\ p_status = 0
    /\ p_all_urls = <<>>
    /\ p_urls = <<>>
    /\ p_all_content = <<>>
    /\ p_batch_num = 0
    /\ p_cooldowns = 0
    /\ p_summary = NoSummary
SpecEndpoint == InitEndpoint /\ [][NextProcess]_vars

-----------------------------------------------------------------------------
(* Claims about the validation of /process requests *)

\* the number of URLs persisted when the request is made
PersistedUrlCount == Len(PersistedUrlLines(urls_blob))

\* process_hm_products has not been entered and no URL has been crawled
NothingProcessed ==
    /\ s_incs[1] = 0
    /\ p_batch_num = 0
    /\ tasks = <<>>
    /\ p_all_content = <<>>

\* the request has been answered 400, or will be: it is still to be validated
Answered400 ==
    \/ s_pc[1] = "request" /\ p_status = 0
    \/ s_pc[1] = "answered" /\ p_status = 400

\* C13: a /process request with end_index - start_index + 1 > 100 is
\* answered 400 and nothing is processed, whatever the number of URLs
\* persisted: none, fewer than the range covers, or enough to cover it.
C13_RangeOver100Is400 ==
    p_req.end_index - p_req.start_index + 1 > MaxUrlsPerRequest =>
        Answered400 /\ NothingProcessed

\* a range of 101 URLs that lies within the 101 URLs persisted
C13_Witness ==
    /\ s_pc[1] = "answered"
    /\ p_status = 400
    /\ p_req.start_index = 0
    /\ p_req.end_index = MaxUrlsPerRequest
    /\ BatchSize(p_req) = 1
    /\ urls_blob = ManyUrlsBlob

\* C14: a /process request with invalid index bounds (start_index < 0,
\* end_index < start_index, or end_index at or beyond the number of URLs
\* persisted at the time of the request) is answered 400 and no URL is
\* processed.
C14_InvalidBoundsIs400 ==
    (\/ p_req.start_index < 0
     \/ p_req.end_index < p_req.start_index
     \/ p_req.end_index >= PersistedUrlCount) =>
        /\ s_pc[1] = "answered" => p_status = 400
        /\ p_batch_num = 0
        /\ tasks = <<>>

-----------------------------------------------------------------------------
(* main_api.py: the /scrape endpoint.  A JSON value of the request body is a *)
(* record tagged with its Python type after request.get_json()              *)

MaxPagesPerRequest == 50

\* None: the value of a JSON null
JNull == [t |-> "null"]

DecimalDigits == <<"0", "1", "2", "3", "4", "5", "6", "7", "8", "9">>
DigitValue(c) == (CHOOSE i \in DOMAIN DecimalDigits : DecimalDigits[i] = c) - 1

\* the value of a string of decimal digits
RECURSIVE DecimalValue(_)
DecimalValue(chars) ==
    IF chars = <<>> THEN 0
    ELSE 10 * DecimalValue(SubSeq(chars, 1, Len(chars) - 1)) + DigitValue(chars[Len(chars)])

\* int(chars) for a str: surrounding whitespace is ignored, an optional "-"
\* and decimal digits give the number, anything else raises ValueError
IntOfStr(chars) ==
    LET body == Strip(chars)
        neg == body # <<>> /\ body[1] = "-"
        digits == IF neg THEN Tail(body) ELSE body
    IN IF digits # <<>> /\ \A i \in DOMAIN digits : digits[i] \in Range(DecimalDigits)
       THEN [raised |-> "none", n |-> IF neg THEN 0 - DecimalValue(digits) ELSE DecimalValue(digits)]
       ELSE [raised |-> "ValueError", n |-> 0]

\* int(x): an int is itself, a float is truncated, a bool is 0 or 1, a str is
\* parsed, a list raises TypeError
PyInt(x) ==
    CASE x.t = "int" -> [raised |-> "none", n |-> x.n]
      [] x.t = "float" -> [raised |-> "none", n |-> x.whole]
      [] x.t = "bool" -> [raised |-> "none", n |-> IF x.b THEN 1 ELSE 0]
      [] x.t = "str" -> IntOfStr(x.chars)
      [] x.t = "list" -> [raised |-> "TypeError", n |-> 0]

\* data.get(key): None when the key is missing or its value is null
DataGet(data, key) == IF key \in DOMAIN data THEN data[key] ELSE JNull

\* scrape_endpoint up to the call of scrape_hm_products: the status it
\* answers with, or 0 when it calls scrape_hm_products(start_page, end_page)
ScrapeValidation(data) ==
    LET start_page == DataGet(data, "start_page")
        end_page == DataGet(data, "end_page")
    IN IF DOMAIN data = {} THEN [status |-> 400, start_page |-> 0, end_page |-> 0]
       ELSE IF start_page = JNull \/ end_page = JNull
       THEN [status |-> 400, start_page |-> 0, end_page |-> 0]
       ELSE LET s == PyInt(start_page)
                e == PyInt(end_page)
            IN IF s.raised = "ValueError"
               THEN [status |-> 400, start_page |-> 0, end_page |-> 0]
               ELSE IF s.raised = "TypeError"
               THEN [status |-> 500, start_page |-> 0, end_page |-> 0]
               ELSE IF e.raised = "ValueError"
               THEN [status |-> 400, start_page |-> s.n, end_page |-> 0]
               ELSE IF e.raised = "TypeError"
               THEN [status |-> 500, start_page |-> s.n, end_page |-> 0]
               ELSE IF s.n < 1 \/ e.n < s.n
               THEN [status |-> 400, start_page |-> s.n, end_page |-> e.n]
               ELSE IF e.n - s.n + 1 > MaxPagesPerRequest
               THEN [status |-> 400, start_page |-> s.n, end_page |-> e.n]
               ELSE [status |-> 0, start_page |-> s.n, end_page |-> e.n]

\* the values a field of the request body takes: integers, the number 1.5,
\* the strings "2" and "x", true, an array and null
ScrapeValues ==
    {[t |-> "int", n |-> n] : n \in {0, 1, 2, MaxPagesPerRequest, MaxPagesPerRequest + 1}}
    \cup {[t |-> "float", whole |-> 1, tenths |-> 5],
          [t |-> "str", chars |-> <<"2">>], [t |-> "str", chars |-> <<"x">>],
          [t |-> "bool", b |-> TRUE], [t |-> "list"], JNull}

\* the request bodies: JSON objects with start_page, end_page, both or neither
ScrapeRequests ==
    UNION {[D -> ScrapeValues] : D \in SUBSET {"start_page", "end_page"}}

\* a validation made inside the session: the counter has been incremented
\* when the request is answered 400, and the return skips the decrement
S_RejectInsideSession ==
    /\ s_pc[1] = "request"
    /\ ScrapeValidation(p_req).status = 400
    /\ p_status' = 400
    /\ active_sessions' = active_sessions + 1
    /\ s_incs' = [s_incs EXCEPT ![1] = @ + 1]
    /\ Goto(1, "answered")
    /\ UNCHANGED <<storeAll, app, sessions_lock, s_tmp, s_current, s_decs, fnVars, pageVars, webVars,
                   image_mapping_lock, image_mapping, crawlVars, p_req, p_all_urls,
                   p_urls, p_all_content, p_batch_num, p_cooldowns, p_summary>>

\* scrape_endpoint: return jsonify({"error": ...}), 400
S_Reject ==
    /\ s_pc[1] = "request"
    /\ ScrapeValidation(p_req).status = 400
    /\ p_status' = 400
    /\ Goto(1, "answered")
    /\ UNCHANGED <<storeAll, trackerRest, fnVars, pageVars, webVars, image_mapping_lock, image_mapping, crawlVars,
                   p_req, p_all_urls, p_urls, p_all_content, p_batch_num, p_cooldowns,
                   p_summary>>

\* scrape_endpoint: an exception other than ValueError reaches "except
\* Exception", which answers 500
S_InternalError ==
    /\ s_pc[1] = "request"
    /\ ScrapeValidation(p_req).status = 500
    /\ p_status' = 500
    /\ Goto(1, "answered")
    /\ UNCHANGED <<storeAll, trackerRest, fnVars, pageVars, webVars, image_mapping_lock, image_mapping, crawlVars,
                   p_req, p_all_urls, p_urls, p_all_content, p_batch_num, p_cooldowns,
                   p_summary>>

\* scrape_endpoint: asyncio.run(scrape_hm_products(start_page, end_page, ...))
S_Accept ==
    /\ s_pc[1] = "request"
    /\ ScrapeValidation(p_req).status = 0
    /\ Goto(1, "start")
    /\ UNCHANGED <<storeAll, trackerRest, fnVars, pageVars, webVars, image_mapping_lock, image_mapping, crawlVars,
                   procVars>>

\* scrape_hm_products has returned its summary: return jsonify(result)
S_Answer ==
    /\ s_pc[1] = "done"
    /\ s_exit[1] \in {"normal", "no_urls"}
    /\ p_status' = 200
    /\ Goto(1, "answered")
    /\ UNCHANGED <<storeAll, trackerRest, fnVars, pageVars, webVars, image_mapping_lock, image_mapping, crawlVars,
                   p_req, p_all_urls, p_urls, p_all_content, p_batch_num, p_cooldowns,
                   p_summary>>

\* scrape_hm_products has raised (upload_urls_to_gcs failed): "except
\* Exception" of scrape_endpoint answers 500
S_AnswerRaised ==
    /\ s_pc[1] = "done"
    /\ s_exit[1] = "raised"
    /\ p_status' = 500
    /\ Goto(1, "answered")
    /\ UNCHANGED <<storeAll, trackerRest, fnVars, pageVars, webVars, image_mapping_lock, image_mapping, crawlVars,
                   p_req, p_all_urls, p_urls, p_all_content, p_batch_num, p_cooldowns,
                   p_summary>>

\* scrape_hm_products for the request
ScrapeSessionStep ==
    /\ \/ BeginAcquire(1)
       \/ BeginStore(1)
       \/ PagesNoUrls(1)
       \/ PagesFoundUrls(1)
       \/ UrlsAcquire(1)
       \/ UrlsUploaded(1)
       \/ UrlsRaise(1)
       \/ EndAcquire(1)
       \/ EndStore(1)
    /\ UNCHANGED <<blobVars, writerVars, crawlVars, procVars, fnVars, pageVars, webVars>>

(* One /scrape request on a process that serves nothing else *)
InitScrape ==
    /\ StoreInit({Absent}, {Absent}, {Absent})
    /\ app = "main_api"
    /\ active_sessions = 0
    /\ sessions_lock = 0
    /\ image_mapping_lock = 0
    /\ image_mapping = <<>>
    /\ s_pc = [s \in Sessions |-> IF s = 1 THEN "request" ELSE "start"]
    /\ s_tmp = [s \in Sessions |-> 0]
    /\ s_current = [s \in Sessions |-> 0]
    /\ s_exit = [s \in Sessions |-> "none"]
    /\ s_incs = [s \in Sessions |-> 0]
    /\ s_decs = [s \in Sessions |-> 0]
    /\ CrawlIdle
    /\ FnIdle
    /\ PageIdle
    /\ WebIdle
    /\ p_req \in ScrapeRequests
    /\ p_status = 0
    /\ p_all_urls = <<>>
    /\ p_urls = <<>>
    /\ p_all_content = <<>>
    /\ p_batch_num = 0
    /\ p_cooldowns = 0
    /\ p_summary = NoSummary
NextScrape ==
    \/ S_Reject
    \/ S_InternalError
    \/ S_Accept
    \/ ScrapeSessionStep
    \/ S_Answer
    \/ S_AnswerRaised
SpecScrape == InitScrape /\ [][NextScrape]_vars

-----------------------------------------------------------------------------
(* Claims about the validation of /scrape requests *)

\* the field is in the body with a value other than null
Present(data, key) == key \in DOMAIN data /\ data[key] # JNull

\* the value denotes an integer: a JSON integer, or a string that int() parses
DenotesInteger(x) ==
    \/ x.t = "int"
    \/ x.t = "str" /\ IntOfStr(x.chars).raised = "none"

\* the integer the value denotes
Denoted(x) == PyInt(x).n

\* what the claim calls a request to answer 400
C16_MustBe400(data) ==
    \/ ~Present(data, "start_page")
    \/ ~Present(data, "end_page")
    \/ ~DenotesInteger(data.start_page)
    \/ ~DenotesInteger(data.end_page)
    \/ Denoted(data.start_page) < 1
    \/ Denoted(data.end_page) < Denoted(data.start_page)
    \/ Denoted(data.end_page) - Denoted(data.start_page) + 1 > MaxPagesPerRequest

\* C16: a /scrape request is answered 400, without a scraping session, when
\* start_page or end_page is missing or not an integer, when start_page < 1,
\* when end_page < start_page or when end_page - start_page + 1 > 50; a
\* request for exactly 50 pages is accepted.
C16_ScrapeValidationIs400 ==
    /\ C16_MustBe400(p_req) =>
           /\ s_pc[1] \in {"request", "answered"}
           /\ s_pc[1] = "answered" => p_status = 400
           /\ s_incs[1] = 0
    /\ (/\ ~C16_MustBe400(p_req)
        /\ Denoted(p_req.end_page) - Denoted(p_req.start_page) + 1 = MaxPagesPerRequest
        /\ s_pc[1] = "answered") => p_status # 400

-----------------------------------------------------------------------------
(* Claims about a merge into an object that does not exist *)

\* the object the call of writer t merges into
Target(t) ==
    CASE w_op[t] = "urls" -> urls_blob
      [] w_op[t] = "mapping" -> mapping_blob
      [] w_op[t] = "garments" -> garments_blob

\* the empty base of the merge: empty set, empty mapping, empty log
EmptyBase(op) == IF op = "urls" THEN {} ELSE <<>>

\* the object holds exactly the records of arg: the URLs sorted, one a line;
\* the entries of the dict; the records in the order given
HoldsExactly(blob, op, arg) ==
    /\ blob.exists
    /\ CASE op = "urls" -> blob.body = Join(Sorted(NonBlank(Range(arg))))
         [] op = "mapping" -> blob.body.valid /\ DownloadedMapping(blob) = arg
         [] op = "garments" -> blob.body = Join(Records(arg))

\* C17: for each of the three merges, when the object does not exist the
\* call is not ended by the absence: it can go on from the download to the
\* upload; when it does, its base is empty (set, mapping, log), and the
\* upload persists exactly the new records.
C17_AbsentObjectIsEmptyBase ==
    /\ [](\A t \in Writers :
             w_pc[t] = "download" /\ ~Target(t).exists => ENABLED Download(t))
    /\ [][\A t \in Writers :
             /\ (w_pc[t] = "download" /\ w_pc'[t] = "upload" /\ ~Target(t).exists) =>
                    w_existing'[t] = EmptyBase(w_op[t])
             /\ (w_pc[t] = "upload" /\ w_pc'[t] = "release" /\ ~Target(t).exists) =>
                    /\ w_existing[t] = EmptyBase(w_op[t])
                    /\ HoldsExactly(Target(t)', w_op[t], w_arg[t])]_vars

\* the first garments call on a log that did not exist has uploaded its two
\* records, the None entry left out, and is about to return
C17_Witness ==
    \E t \in Writers :
        /\ w_pc[t] = "release"
        /\ w_op[t] = "garments"
        /\ w_arg[t] = <<NoneVal, GarmentText("2")>>
        /\ ~garments_prev.exists
        /\ garments_log = <<>>
        /\ w_existing[t] = <<>>
        /\ garments_blob = Blob(GarmentText("2"))

-----------------------------------------------------------------------------
(* Claims about a persisted mapping that is not valid JSON *)

\* the first call of upload_image_mapping_to_gcs with entries to add is made
\* on a persisted object that is not valid JSON
FirstCallOnCorrupt ==
    /\ mapping_prev = Blob(CorruptJson)
    /\ mapping_log[1] = <<>>
    /\ w_op[1] = "mapping"
    /\ w_arg[1] # <<>>

\* C18: when the persisted mapping object exists but is not valid JSON,
\* upload_image_mapping_to_gcs with new entries merges them into an empty
\* base and uploads the result, and when it has returned true the persisted
\* mapping is valid JSON that holds exactly the new entries.
C18_CorruptMappingStartsFresh ==
    /\ (FirstCallOnCorrupt /\ w_pc[1] = "download") => mapping_blob = Blob(CorruptJson)
    /\ (FirstCallOnCorrupt /\ w_pc[1] = "upload") => w_existing[1] = <<>>
    /\ (FirstCallOnCorrupt /\ w_pc[1] = "release") =>
           /\ mapping_blob.exists
           /\ mapping_blob.body.valid
           /\ DownloadedMapping(mapping_blob) = w_arg[1]
    /\ ( /\ mapping_prev = Blob(CorruptJson)
         /\ w_pc[1] = "idle"
         /\ Len(mapping_log[1]) = 1
         /\ mapping_log[1][1].arg # <<>>
         /\ mapping_log[1][1].ret = "True" ) =>
           /\ mapping_blob.exists
           /\ mapping_blob.body.valid
           /\ DownloadedMapping(mapping_blob) = mapping_log[1][1].arg

\* the call with the entries Y and X on the corrupt object has returned true
C18_Witness ==
    /\ mapping_prev = Blob(CorruptJson)
    /\ w_pc[1] = "idle"
    /\ mapping_log[1] = << [arg |-> << <<"Y", 1>>, <<"X", 2>> >>, ret |-> "True"] >>
    /\ DownloadedMapping(mapping_blob) = << <<"Y", 1>>, <<"X", 2>> >>

-----------------------------------------------------------------------------
(* Claims about what the merge operations report to their caller *)

\* C19: each of upload_urls_to_gcs, upload_image_mapping_to_gcs and
\* upload_processed_garments_to_gcs reports its outcome as a boolean, true
\* when the merged content was uploaded and false when the download or the
\* upload failed, and does not raise: the result of a finished call is
\* never anything but True or False.
C19_MergeReportsBoolean ==
    \A t \in Writers :
        (w_pc[t] = "idle" /\ w_ret[t] # "none") => w_ret[t] \in {"True", "False"}

-----------------------------------------------------------------------------
(* Claims about the URL merge as an operation on the persisted object *)

\* upload_urls_to_gcs(urls) run from its first line to its return on the
\* object blob: the object it leaves
UploadUrls(blob, urls) ==
    IF urls = <<>> THEN blob
    ELSE Blob(UrlsContent(MergedUrls(ExistingUrls(blob), urls)))

\* C21: the URL merge is idempotent and commutative: when two callers have
\* submitted the lists A and B, in whichever order their merges ran, the
\* persisted content is what A then B gives and what B then A gives, and
\* submitting A or B again leaves it unchanged.
C21_UrlMergeIdempotentCommutative ==
    \A t, u \in Writers :
        ( /\ t # u
          /\ AllWritersIdle
          /\ w_ret[t] = "None" /\ w_ret[u] = "None"
          /\ \A v \in Writers \ {t, u} : w_ret[v] = "none" ) =>
            LET A == w_arg[t]
                B == w_arg[u]
            IN /\ urls_blob = UploadUrls(UploadUrls(urls_prev, A), B)
               /\ urls_blob = UploadUrls(UploadUrls(urls_prev, B), A)
               /\ UploadUrls(urls_blob, A) = urls_blob
               /\ UploadUrls(urls_blob, B) = urls_blob
               /\ UploadUrls(UploadUrls(urls_prev, A), A) = UploadUrls(urls_prev, A)

\* the lists [b, a] and [ab, ab] have been merged into an object that held b
C21_Witness ==
    /\ AllWritersIdle
    /\ urls_prev = Blob(UrlsContent({UB}))
    /\ w_arg[1] = <<UB, UA>> /\ w_ret[1] = "None"
    /\ w_arg[2] = <<UAB, UAB>> /\ w_ret[2] = "None"
    /\ urls_blob = Blob(UrlsContent({UA, UAB, UB}))

-----------------------------------------------------------------------------
(* Claims about the cooldown between batches *)

\* C22: in a /process session the 2-second cooldown sleep happens after
\* every batch except the last: a sleep is only ever entered with a batch
\* still to come, each batch before the last has had its sleep when the next
\* one starts, and once the loop over n URLs in batches of b has ended there
\* have been exactly ceil(n/b) - 1 sleeps.
C22_CooldownBetweenBatchesOnly ==
    LET n == Len(p_urls)
        b == BatchSize(p_req)
    IN  /\ s_pc[1] = "cooldown" =>
               /\ p_batch_num < Ceil(n, b)
               /\ p_cooldowns = p_batch_num - 1
        /\ s_pc[1] = "gather" => p_cooldowns = p_batch_num - 1
        /\ AfterBatchLoop => p_cooldowns = Ceil(n, b) - 1

\* three URLs in batches of two: one sleep, after the first batch
C22_Witness ==
    /\ s_pc[1] = "finish"
    /\ Len(p_urls) = 3
    /\ BatchSize(p_req) = 2
    /\ p_batch_num = 2
    /\ p_cooldowns = 1

-----------------------------------------------------------------------------
(* Claims about the calls of one batch *)

\* the URLs of batch k of the request: p_urls[(k-1)b + 1 .. min(kb, n)]
BatchUrls(k) ==
    LET b == BatchSize(p_req)
        n == Len(p_urls)
    IN SubSeq(p_urls, (k - 1) * b + 1, IF k * b < n THEN k * b ELSE n)

\* C23: within a session all calls of a batch are created together, before
\* any of them has run; while any call exists the calls are exactly those of
\* the current batch and every result of the earlier batches has been
\* collected; and the batch ends only in a step that finds every call
\* returned and collects all their results.
C23_BatchIsFireAllWaitAll ==
    /\ [](tasks # <<>> =>
             /\ s_pc[1] = "gather"
             /\ [j \in DOMAIN tasks |-> tasks[j].url] = BatchUrls(p_batch_num)
             /\ Len(p_all_content) = (p_batch_num - 1) * BatchSize(p_req))
    /\ [][/\ (tasks = <<>> /\ tasks' # <<>>) =>
                 /\ p_batch_num' = p_batch_num + 1
                 /\ Len(tasks') = Len(BatchUrls(p_batch_num)')
                 /\ \A j \in DOMAIN tasks' : tasks'[j] = NewTask(tasks'[j].url)
          /\ (tasks # <<>> /\ tasks' = <<>>) =>
                 /\ \A j \in DOMAIN tasks : tasks[j].pc = "returned"
                 /\ Len(p_all_content') = Len(p_all_content) + Len(tasks)
                 /\ \A j \in DOMAIN tasks :
                        p_all_content'[Len(p_all_content) + j].val = tasks[j].result]_vars

\* the second batch of a request for three URLs in batches of two is
\* running, with both results of the first batch collected
C23_Witness ==
    /\ s_pc[1] = "gather"
    /\ Len(p_urls) = 3
    /\ BatchSize(p_req) = 2
    /\ p_batch_num = 2
    /\ Len(tasks) = 1
    /\ tasks[1].pc = "fetch"
    /\ Len(p_all_content) = 2

-----------------------------------------------------------------------------
(* transformation/hardcoded_re.py: extract_price_info.  The page text is a   *)
(* sequence of tokens: the two markers of the price section, prices in the  *)
(* form the price pattern matches, and other text                           *)

MaxTextLen == 5

\* "Inte sparat i favoriter"
StartMarker == "Inte sparat i favoriter"
\* "Färg:", with or without "## " before it
EndMarker == "Farg:"
\* text that matches neither a marker nor the price pattern
OtherText == "text"

\* the matches of (\d+,\d{2})\s*kr in the model, and float() of each after
\* replace(',', '.'), in öre so that the value stays an integer
PriceValue ==
    [t \in {"0,00 kr", "99,50 kr", "199,00 kr", "200,00 kr", "399,00 kr"} |->
        CASE t = "0,00 kr" -> 0
          [] t = "99,50 kr" -> 9950
          [] t = "199,00 kr" -> 19900
          [] t = "200,00 kr" -> 20000
          [] t = "399,00 kr" -> 39900]

PriceTokens == {StartMarker, EndMarker, OtherText} \cup DOMAIN PriceValue

\* the index of the first token of text from position i on that is tok, or 0
RECURSIVE FirstFrom(_, _, _)
FirstFrom(text, tok, i) ==
    IF i > Len(text) THEN 0
    ELSE IF text[i] = tok THEN i
    ELSE FirstFrom(text, tok, i + 1)

\* re.search(pattern, text): the leftmost start marker that has an end marker
\* after it, and group(1), what lies between it and the first such end marker
PriceSection(text) ==
    LET s == FirstFrom(text, StartMarker, 1)
        e == IF s = 0 THEN 0 ELSE FirstFrom(text, EndMarker, s + 1)
    IN IF e = 0 THEN [match |-> FALSE, content |-> <<>>]
       ELSE [match |-> TRUE, content |-> SubSeq(text, s + 1, e - 1)]

\* re.findall(price_pattern, content), each converted by float()
FindPrices(content) ==
    LET found == SelectSeq(content, LAMBDA t : t \in DOMAIN PriceValue)
    IN [i \in DOMAIN found |-> PriceValue[found[i]]]

\* round(num / den) for den > 0: to the nearest integer, a tie to the even one
PyRound(num, den) ==
    LET q == num \div den
        r == num - q * den
    IN IF 2 * r < den THEN q
       ELSE IF 2 * r > den THEN q + 1
       ELSE IF q % 2 = 0 THEN q ELSE q + 1

\* an Optional value: <<>> is None; a discount_percentage: <<>> is
\* "no discount", <<k>> is f"{k}%"
PriceTuple(discounted, original, percentage) ==
    [returned |-> TRUE, raised |-> "none", discounted_price |-> discounted,
     original_price |-> original, discount_percentage |-> percentage]

\* the first price taken as the original and the second as the discounted
PriceResultFirstIsOriginal(prices) ==
    IF Len(prices) = 0 THEN PriceTuple(<<>>, <<>>, <<>>)
    ELSE IF Len(prices) = 1 THEN PriceTuple(<<>>, <<prices[1]>>, <<>>)
    ELSE IF prices[1] = 0
         THEN [returned |-> TRUE, raised |-> "ZeroDivisionError"]
         ELSE PriceTuple(<<prices[2]>>, <<prices[1]>>,
                         <<PyRound((prices[1] - prices[2]) * 100, prices[1])>>)

\* extract_price_info: the branches on len(prices); the division raises
\* ZeroDivisionError when the original price is 0.0
PriceResult(prices) ==
    IF Len(prices) = 0 THEN PriceTuple(<<>>, <<>>, <<>>)
    ELSE IF Len(prices) = 1 THEN PriceTuple(<<>>, <<prices[1]>>, <<>>)
    ELSE IF prices[2] = 0
         THEN [returned |-> TRUE, raised |-> "ZeroDivisionError"]
         ELSE PriceTuple(<<prices[1]>>, <<prices[2]>>,
                         <<PyRound((prices[2] - prices[1]) * 100, prices[2])>>)

\* extract_price_info(text)
ExtractPriceInfo(text) ==
    LET section == PriceSection(text)
    IN IF ~section.match THEN PriceTuple(<<>>, <<>>, <<>>)
       ELSE PriceResult(FindPrices(section.content))

\* the page texts of up to MaxTextLen tokens
PriceTexts == UNION {[1..n -> PriceTokens] : n \in 0..MaxTextLen}

\* the call extract_price_info(fn_text) returns or raises
CallExtractPriceInfo ==
    /\ fn_result = NoResult
    /\ fn_result' = ExtractPriceInfo(fn_text)
    /\ UNCHANGED <<blobVars, gcs_lock, writerVars, sessVars, crawlVars, procVars, fn_text,
                   pageVars, webVars>>

(* One call of extract_price_info on any page text *)
InitPrice ==
    /\ StoreInit({Absent}, {Absent}, {Absent})
    /\ app = "product_api"
    /\ TrackerIdle
    /\ CrawlIdle
    /\ ProcessIdle
    /\ PageIdle
    /\ WebIdle
    /\ fn_text \in PriceTexts
    /\ fn_result = NoResult
NextPrice == CallExtractPriceInfo
SpecPrice == InitPrice /\ [][NextPrice]_vars

-----------------------------------------------------------------------------
(* Claims about extract_price_info *)

\* the prices of the bounded section of the text, in order (none when the
\* section is not found)
SectionPrices(text) ==
    IF PriceSection(text).match THEN FindPrices(PriceSection(text).content) ELSE <<>>

-----------------------------------------------------------------------------
(* transformation/hardcoded_re.py: count_most_frequent_word.  The text is a  *)
(* sequence of words; an occurrence of a target word is a word equal to it *)
(* after upper()                                                             *)

\* target_words, in the order of the list
TargetWords == <<"DAM", "HERR", "BARN", "HOME", "BEAUTY">>

\* str.upper() on the words of the model
Upper ==
    [w \in {"DAM", "dam", "Herr", "HERR", "barn", "home", "Beauty", "kr"} |->
        CASE w \in {"DAM", "dam"} -> "DAM"
          [] w \in {"Herr", "HERR"} -> "HERR"
          [] w = "barn" -> "BARN"
          [] w = "home" -> "HOME"
          [] w = "Beauty" -> "BEAUTY"
          [] w = "kr" -> "KR"]

\* text_upper.count(word)
WordCount(text, word) == Cardinality({i \in DOMAIN text : Upper[text[i]] = word})

\* max(word_counts, key=word_counts.get): the first key, in insertion order,
\* whose count is the largest
RECURSIVE MaxKeyFrom(_, _, _)
MaxKeyFrom(text, i, best) ==
    IF i > Len(TargetWords) THEN best
    ELSE MaxKeyFrom(text, i + 1,
                    IF WordCount(text, TargetWords[i]) > WordCount(text, best)
                    THEN TargetWords[i] ELSE best)

\* count_most_frequent_word(text): "return None, 0" when every count is 0,
\* which is the tuple (None, 0), and "return most_frequent_word" otherwise
CountMostFrequentWord(text) ==
    IF \A i \in DOMAIN TargetWords : WordCount(text, TargetWords[i]) = 0
    THEN [returned |-> TRUE, type |-> "tuple", first |-> "None", second |-> 0]
    ELSE [returned |-> TRUE, type |-> "str", str |-> MaxKeyFrom(text, 2, TargetWords[1])]

\* the texts of up to MaxTextLen words
GenderTexts == UNION {[1..n -> DOMAIN Upper] : n \in 0..MaxTextLen}

\* the call count_most_frequent_word(fn_text) returns
CallCountMostFrequentWord ==
    /\ fn_result = NoResult
    /\ fn_result' = CountMostFrequentWord(fn_text)
    /\ UNCHANGED <<blobVars, gcs_lock, writerVars, sessVars, crawlVars, procVars, fn_text,
                   pageVars, webVars>>

(* One call of count_most_frequent_word on any text *)
InitGender ==
    /\ StoreInit({Absent}, {Absent}, {Absent})
    /\ app = "product_api"
    /\ TrackerIdle
    /\ CrawlIdle
    /\ ProcessIdle
    /\ PageIdle
    /\ WebIdle
    /\ fn_text \in GenderTexts
    /\ fn_result = NoResult
NextGender == CallCountMostFrequentWord
SpecGender == InitGender /\ [][NextGender]_vars

-----------------------------------------------------------------------------
(* Claims about count_most_frequent_word *)

\* C25: count_most_frequent_word returns the target word with the highest
\* case-insensitive count, the earliest in the order DAM, HERR, BARN, HOME,
\* BEAUTY on a tie, and returns None (no other value) when every count is 0.
C25_MostFrequentWordOrNull ==
    fn_result.returned =>
        IF \A i \in DOMAIN TargetWords : WordCount(fn_text, TargetWords[i]) = 0
        THEN fn_result.type = "None"
        ELSE /\ fn_result.type = "str"
             /\ \E i \in DOMAIN TargetWords :
                    /\ fn_result.str = TargetWords[i]
                    /\ \A k \in DOMAIN TargetWords :
                           /\ WordCount(fn_text, TargetWords[k]) <= WordCount(fn_text, TargetWords[i])
                           /\ k < i => WordCount(fn_text, TargetWords[k]) < WordCount(fn_text, TargetWords[i])

-----------------------------------------------------------------------------
(* crawl_url: a successful fetch on which an extraction pattern is absent   *)

\* C26: a page fetched with success on which a pattern is absent (no
\* size/material span, or no image link) makes the call return on that
\* attempt: the call does not sleep and does not fetch the page again. The
\* calls whose extraction service raised are left out.
C26_AbsentPatternIsNoRetry ==
    \A j \in DOMAIN tasks :
        tasks[j].succeeded_at > 0 /\ ~tasks[j].llm_raised =>
            /\ tasks[j].pc = "returned"
            /\ tasks[j].fetches = tasks[j].succeeded_at

-----------------------------------------------------------------------------
(* Locks and await points of a session *)

\* the positions at which a session is suspended at an await: the batch loop
\* of process_hm_products ("await process_batch", "await asyncio.sleep") and
\* the page loop of scrape_hm_products ("await crawl_products")
AwaitPositions == {"batches", "pages"}

\* the locks session s holds
LocksHeld(s) ==
    {l \in {"sessions", "image_mapping", "gcs"} :
        \/ l = "sessions" /\ sessions_lock = s
        \/ l = "image_mapping" /\ image_mapping_lock = s
        \/ l = "gcs" /\ gcs_lock = s}

\* C27: a session suspended at an await point holds no lock; the sessions
\* lock is held only between the read and the write of the counter, the
\* image-mapping lock only over the synchronous upload of the mapping, and
\* the merge lock only inside the download-merge-upload of one upload call.
C27_NoLockHeldAtAwait ==
    \A s \in Sessions :
        /\ s_pc[s] \in AwaitPositions => LocksHeld(s) = {}
        /\ sessions_lock = s => s_pc[s] \in {"begin_store", "end_store"}
        /\ image_mapping_lock = s =>
               s_pc[s] \in {"mapping_gcs", "mapping_cs", "mapping_unlock"}
        /\ gcs_lock = s => s_pc[s] \in {"garments_cs", "mapping_cs", "urls_cs"}

\* one session is suspended in its batch loop while another holds the
\* image-mapping lock and the merge lock
C27_Witness ==
    \E s, u \in Sessions :
        /\ s_pc[s] = "batches" /\ LocksHeld(s) = {}
        /\ LocksHeld(u) = {"image_mapping", "gcs"}

-----------------------------------------------------------------------------
(* gcp_bucket.py: upload_urls_to_gcs called in separate instances. Each      *)
(* instance has imported the module and so has a _gcs_lock of its own;       *)
(* gcs_lock[i] is the lock of instance i, whose only caller is i. The        *)
(* instances share the bucket.                                               *)

\* "with _gcs_lock:" on entry, in instance i
InstanceAcquire(i) ==
    /\ w_pc[i] = "lock"
    /\ gcs_lock[i] = 0
    /\ gcs_lock' = [gcs_lock EXCEPT ![i] = i]
    /\ w_pc' = [w_pc EXCEPT ![i] = "download"]
    /\ UNCHANGED <<urls_blob, mapping_blob, garments_blob, w_op, w_arg, w_existing,
                   w_ret, w_calls, urls_prev, urls_returned, mapping_prev, mapping_log,
                   garments_prev, garments_log>>

\* the call of instance i leaves the with-block, by "return" or by an
\* exception of the storage client: the lock of the instance is released
InstanceLeave(i, ret) ==
    /\ gcs_lock' = [gcs_lock EXCEPT ![i] = 0]
    /\ w_pc' = [w_pc EXCEPT ![i] = "idle"]
    /\ w_ret' = [w_ret EXCEPT ![i] = ret]
    /\ LogCall(i, w_op[i], w_arg[i], ret)
    /\ UNCHANGED <<urls_blob, mapping_blob, garments_blob, w_op, w_arg, w_existing,
                   w_calls>>

\* download_as_text() or upload_from_string() raises in instance i
InstanceFails(i) ==
    /\ w_pc[i] \in {"download", "upload"}
    /\ InstanceLeave(i, "raised")

\* the end of the with-block in instance i: the call returns
InstanceRelease(i) ==
    /\ w_pc[i] = "release"
    /\ InstanceLeave(i, NormalReturn(w_op[i]))

InitInstances ==
    /\ urls_blob \in UrlsBlobStates
    /\ mapping_blob = Absent
    /\ garments_blob = Absent
    /\ gcs_lock = [i \in Writers |-> 0]
    /\ w_pc = [t \in Writers |-> "idle"]
    /\ w_op = [t \in Writers |-> "none"]
    /\ w_arg = [t \in Writers |-> <<>>]
    /\ w_existing = [t \in Writers |-> <<>>]
    /\ w_ret = [t \in Writers |-> "none"]
    /\ w_calls = [t \in Writers |-> 0]
    /\ urls_prev = urls_blob
    /\ urls_returned = {}
    /\ mapping_prev = mapping_blob
    /\ mapping_log = [t \in Writers |-> <<>>]
    /\ garments_prev = garments_blob
    /\ garments_log = <<>>
    /\ SessionsIdle
NextInstances ==
    /\ \E i \in Writers :
           \/ CallUrls(i)
           \/ InstanceAcquire(i)
           \/ Download(i)
           \/ Upload(i)
           \/ InstanceFails(i)
           \/ InstanceRelease(i)
    /\ UNCHANGED <<sessVars, crawlVars, procVars, fnVars, pageVars, webVars>>
SpecInstances == InitInstances /\ [][NextInstances]_vars

\* C28: when the upload_urls_to_gcs calls of separate instances have ended,
\* whatever their interleaving, the persisted URL set holds every non-blank
\* URL submitted by a call that returned, and every URL persisted before.
C28_NoUrlLostAcrossInstances ==
    AllWritersIdle =>
        (Range(PersistedUrlLines(urls_prev)) \cup NonBlank(urls_returned))
            \subseteq Range(PersistedUrlLines(urls_blob))

-----------------------------------------------------------------------------
(* The persisted URL object, at any moment *)

\* C29: at every moment the persisted URL object is the newline-joined list
\* of its lines, the lines are in strictly ascending order (hence no line
\* occurs twice) and none is blank; and no step removes a line from it.
C29_PersistedUrlsSortedAndGrowing ==
    /\ [](LET lines == PersistedUrlLines(urls_blob) IN
          /\ urls_blob.exists => urls_blob.body = Join(lines)
          /\ \A i, j \in DOMAIN lines : i < j => StrLess(lines[i], lines[j])
          /\ \A i \in DOMAIN lines : Strip(lines[i]) # <<>>)
    /\ [][Range(PersistedUrlLines(urls_blob))
              \subseteq Range(PersistedUrlLines(urls_blob'))]_vars

\* two calls have returned on top of a persisted list, and the object holds
\* three lines
C29_Witness ==
    /\ AllWritersIdle
    /\ \A t \in Writers : w_ret[t] = "None" /\ w_arg[t] # <<>>
    /\ urls_prev = Blob(UrlsContent({UB}))
    /\ PersistedUrlLines(urls_blob) = <<UA, UAB, UB>>

-----------------------------------------------------------------------------
(* One request to either endpoint: POST /process of product_api or POST      *)
(* /scrape of main_api                                                       *)

InitEndpoints == InitEndpoint \/ InitScrape
NextEndpoints ==
    \/ app = "product_api" /\ NextProcess
    \/ app = "main_api" /\ NextScrape
SpecEndpoints == InitEndpoints /\ [][NextEndpoints]_vars

\* C30: a request answered 400 by either endpoint changes nothing: when the
\* answer is 400 the session counter has not been incremented, no page has
\* been fetched, the URL list has not been read and the remote objects are
\* what they were; and the step that answers 400 changes nothing but the
\* position of the request and its status.
C30_RejectedRequestChangesNothing ==
    /\ [](p_status = 400 =>
             /\ s_pc[1] = "answered"
             /\ active_sessions = 0
             /\ \A s \in Sessions : s_incs[s] = 0 /\ s_decs[s] = 0
             /\ tasks = <<>>
             /\ p_all_urls = <<>> /\ p_urls = <<>> /\ p_all_content = <<>>
             /\ p_batch_num = 0
             /\ gcs_lock = 0
             /\ urls_blob = urls_prev
             /\ mapping_blob = mapping_prev
             /\ garments_blob = garments_prev)
    /\ [][p_status' = 400 =>
             UNCHANGED <<storeAll, trackerRest, image_mapping_lock, image_mapping,
                         crawlVars, p_req, p_all_urls, p_urls, p_all_content,
                         p_batch_num, p_cooldowns, p_summary>>]_vars

\* a /process request for a valid range of a persisted URL list is answered
\* 400 for its batch size
C30_Witness ==
    /\ app = "product_api"
    /\ p_status = 400 /\ s_pc[1] = "answered"
    /\ urls_blob.exists /\ urls_blob.body # <<>>
    /\ p_req.start_index = 0 /\ p_req.end_index = 0
    /\ BatchSize(p_req) = MaxBatchSizeAllowed + 1

-----------------------------------------------------------------------------
(* Merge calls with nothing to merge *)

\* caller t starts a call in this step
Starts(t) == w_calls'[t] = w_calls[t] + 1

\* C31: a call of upload_urls_to_gcs, upload_image_mapping_to_gcs or
\* upload_processed_garments_to_gcs with an empty argument returns in the
\* step that starts it: the lock and the three objects are left as they are,
\* the caller is never at the lock, the download or the upload, and the
\* value returned is True for the image mapping and None for the other two.
C31_EmptyMergeIsNoOp ==
    /\ [](\A t \in Writers :
             w_calls[t] > 0 /\ w_arg[t] = <<>> =>
                 /\ w_pc[t] = "idle"
                 /\ gcs_lock # t
                 /\ w_ret[t] = IF w_op[t] = "mapping" THEN "True" ELSE "None")
    /\ [][\A t \in Writers :
             Starts(t) /\ w_arg'[t] = <<>> =>
                 /\ w_pc'[t] = "idle"
                 /\ gcs_lock' = gcs_lock
                 /\ <<urls_blob, mapping_blob, garments_blob>>' =
                    <<urls_blob, mapping_blob, garments_blob>>]_vars

\* a call with an empty mapping has returned True while another caller is
\* between its download and its upload, holding the lock
C31_Witness ==
    /\ w_calls[1] = 1 /\ w_op[1] = "mapping" /\ w_arg[1] = <<>>
    /\ w_pc[1] = "idle" /\ w_ret[1] = "True"
    /\ gcs_lock = 2 /\ w_pc[2] = "upload"
    /\ mapping_blob = mapping_prev

-----------------------------------------------------------------------------
(* main_api.py: scrape_hm_products, page by page *)

\* largest page index of a call
MaxPage == 3

\* what filter_garment_urls(result.links.get("internal", [])) gives for a page
PageLinks == { <<>>, <<UA>>, <<UB, UA>> }

\* the dicts scrape_hm_products returns
ScrapeSuccess(urls) == [returned |-> TRUE, success |-> TRUE, urls_found |-> Len(urls)]
ScrapeNoUrls == [returned |-> TRUE, success |-> FALSE, urls_found |-> 0]

\* the end of one pass of the loop body: the outcome of the crawl is noted
\* and the for statement takes the next index
PageDone(outcome, urls) ==
    /\ pg_crawls' = [pg_crawls EXCEPT ![Len(pg_crawls)] =
                        [page |-> pg_index, outcome |-> outcome, urls |-> urls]]
    /\ pg_index' = pg_index + 1
    /\ pg_pc' = "loop"

pageFrame == <<blobVars, gcs_lock, writerVars, sessVars, crawlVars, procVars, fnVars,
               webVars, pg_start, pg_end>>

\* "for index in range(start_page, end_page + 1):" has a next index:
\* "result = await crawl_products(...)" is entered
PG_NextPage ==
    /\ s_pc[1] = "pages" /\ pg_pc = "loop"
    /\ pg_index <= pg_end
    /\ pg_crawls' = Append(pg_crawls, [page |-> pg_index, outcome |-> "pending",
                                       urls |-> <<>>])
    /\ pg_pc' = "crawl"
    /\ UNCHANGED <<pageFrame, pg_index, pg_all_urls, pg_uploads, pg_result>>

\* result.success: "all_urls.extend(garment_urls)"
PG_PageSucceeded ==
    /\ pg_pc = "crawl"
    /\ \E garment_urls \in PageLinks :
           /\ pg_all_urls' = pg_all_urls \o garment_urls
           /\ PageDone("success", garment_urls)
    /\ UNCHANGED <<pageFrame, pg_uploads, pg_result>>

\* result.success is false: the else branch prints
PG_PageFailed ==
    /\ pg_pc = "crawl"
    /\ PageDone("failed", <<>>)
    /\ UNCHANGED <<pageFrame, pg_all_urls, pg_uploads, pg_result>>

\* an exception that leaves the loop and the try block of the function
PG_PageRaisesAborts ==
    /\ pg_pc = "crawl"
    /\ pg_crawls' = [pg_crawls EXCEPT ![Len(pg_crawls)].outcome = "raised"]
    /\ pg_pc' = "raised"
    /\ ExitTry(1, "raised")
    /\ UNCHANGED <<blobVars, gcs_lock, writerVars, app, active_sessions, sessions_lock,
                   image_mapping_lock, image_mapping, s_tmp, s_current, s_incs, s_decs,
                   crawlVars, procVars, fnVars, webVars, pg_start, pg_end, pg_index,
                   pg_all_urls, pg_uploads, pg_result>>

\* crawl_products raises: "except Exception as e:" inside the loop prints
PG_PageRaises ==
    /\ pg_pc = "crawl"
    /\ PageDone("raised", <<>>)
    /\ UNCHANGED <<pageFrame, pg_all_urls, pg_uploads, pg_result>>

\* the loop has ended and all_urls is empty: the else branch returns
PG_NoUrls ==
    /\ s_pc[1] = "pages" /\ pg_pc = "loop"
    /\ pg_index > pg_end
    /\ pg_all_urls = <<>>
    /\ pg_result' = ScrapeNoUrls
    /\ pg_pc' = "returned"
    /\ ExitTry(1, "no_urls")
    /\ UNCHANGED <<blobVars, gcs_lock, writerVars, app, active_sessions, sessions_lock,
                   image_mapping_lock, image_mapping, s_tmp, s_current, s_incs, s_decs,
                   crawlVars, procVars, fnVars, webVars, pg_start, pg_end, pg_index,
                   pg_all_urls, pg_crawls, pg_uploads>>

\* the loop has ended, "if all_urls:": upload_urls_to_gcs(all_urls) is called
PG_Upload ==
    /\ s_pc[1] = "pages" /\ pg_pc = "loop"
    /\ pg_index > pg_end
    /\ pg_all_urls # <<>>
    /\ pg_uploads' = Append(pg_uploads, pg_all_urls)
    /\ pg_pc' = "upload"
    /\ Goto(1, "urls_lock")
    /\ UNCHANGED <<blobVars, gcs_lock, writerVars, app, active_sessions, sessions_lock,
                   image_mapping_lock, image_mapping, s_tmp, s_current, s_incs, s_decs,
                   crawlVars, procVars, fnVars, webVars, pg_start, pg_end, pg_index,
                   pg_all_urls, pg_crawls, pg_result>>

\* upload_urls_to_gcs returns: the success dict is returned
PG_Uploaded ==
    /\ s_pc[1] = "urls_cs"
    /\ urls_blob' = UploadUrls(urls_blob, pg_all_urls)
    /\ gcs_lock' = 0
    /\ pg_result' = ScrapeSuccess(pg_all_urls)
    /\ pg_pc' = "returned"
    /\ ExitTry(1, "normal")
    /\ UNCHANGED <<mapping_blob, garments_blob, writerVars, app, active_sessions,
                   sessions_lock, image_mapping_lock, image_mapping, s_tmp, s_current,
                   s_incs, s_decs, crawlVars, procVars, fnVars, webVars, pg_start,
                   pg_end, pg_index, pg_all_urls, pg_crawls, pg_uploads>>

\* upload_urls_to_gcs raises: the exception leaves scrape_hm_products
PG_UploadRaises ==
    /\ s_pc[1] = "urls_cs"
    /\ gcs_lock' = 0
    /\ pg_pc' = "raised"
    /\ ExitTry(1, "raised")
    /\ UNCHANGED <<blobVars, writerVars, app, active_sessions, sessions_lock,
                   image_mapping_lock, image_mapping, s_tmp, s_current, s_incs, s_decs,
                   crawlVars, procVars, fnVars, webVars, pg_start, pg_end, pg_index,
                   pg_all_urls, pg_crawls, pg_uploads, pg_result>>

\* the steps of the session around the page loop
PG_SessionStep ==
    /\ \/ BeginAcquire(1)
       \/ BeginStore(1)
       \/ UrlsAcquire(1)
       \/ EndAcquire(1)
       \/ EndStore(1)
    /\ UNCHANGED <<blobVars, writerVars, crawlVars, procVars, fnVars, pageVars, webVars>>

(* One scrape_hm_products(start_page, end_page) call, for any page range      *)
(* (an empty one too: the function is also called without the endpoint)      *)
InitPages ==
    /\ StoreInit({Absent, Blob(UrlsContent({UAB}))}, {Absent}, {Absent})
    /\ app = "main_api"
    /\ TrackerIdle
    /\ CrawlIdle
    /\ FnIdle
    /\ ProcessIdle
    /\ WebIdle
    /\ pg_pc = "loop"
    /\ pg_start \in 1..MaxPage
    /\ pg_end \in 0..MaxPage
    /\ pg_index = pg_start
    /\ pg_all_urls = <<>>
    /\ pg_crawls = <<>>
    /\ pg_uploads = <<>>
    /\ pg_result = NoSummary
NextPages ==
    \/ PG_SessionStep
    \/ PG_NextPage
    \/ PG_PageSucceeded
    \/ PG_PageFailed
    \/ PG_PageRaises
    \/ PG_NoUrls
    \/ PG_Upload
    \/ PG_Uploaded
    \/ PG_UploadRaises
SpecPages == InitPages /\ [][NextPages]_vars

\* the number of pages of the range (none when end_page < start_page)
PageCount == IF pg_end >= pg_start THEN pg_end - pg_start + 1 ELSE 0

\* the URLs of the successful crawls among the first k, in page order
RECURSIVE FoundUrls(_)
FoundUrls(k) ==
    IF k = 0 THEN <<>>
    ELSE FoundUrls(k - 1)
         \o (IF pg_crawls[k].outcome = "success" THEN pg_crawls[k].urls ELSE <<>>)

\* the page loop has ended
PagesDone == pg_pc \in {"upload", "returned", "raised"}

\* C32: the k-th crawl of a scrape_hm_products call is the crawl of page
\* start_page + k - 1, and a crawl starts only when the one before it has
\* ended; when the loop has ended every page of the range has been crawled
\* once, whatever the outcomes; upload_urls_to_gcs is called at most once,
\* after the loop, with the URLs of all successful pages in page order; and
\* the dict returned has success true exactly when a URL was found, in
\* which case the upload was made.
C32_PagesInOrderThenOneUpload ==
    /\ \A k \in DOMAIN pg_crawls :
           /\ pg_crawls[k].page = pg_start + k - 1
           /\ pg_crawls[k].page <= pg_end
           /\ pg_crawls[k].outcome = "pending" => k = Len(pg_crawls) /\ pg_pc = "crawl"
    /\ PagesDone => Len(pg_crawls) = PageCount
    /\ pg_all_urls = FoundUrls(Len(pg_crawls))
    /\ Len(pg_uploads) <= 1
    /\ pg_uploads # <<>> => PagesDone /\ pg_uploads[1] = FoundUrls(PageCount)
    /\ pg_result.returned =>
           /\ pg_result.success = (FoundUrls(PageCount) # <<>>)
           /\ pg_result.urls_found = Len(FoundUrls(PageCount))
           /\ pg_result.success => Len(pg_uploads) = 1

\* three pages: the first raised, the second failed, the third gave two
\* URLs, which were uploaded and reported
C32_Witness ==
    /\ pg_start = 1 /\ pg_end = 3
    /\ Len(pg_crawls) = 3
    /\ pg_crawls[1].outcome = "raised"
    /\ pg_crawls[2].outcome = "failed"
    /\ pg_crawls[3].outcome = "success"
    /\ pg_uploads = << <<UB, UA>> >>
    /\ pg_result = ScrapeSuccess(<<UB, UA>>)
    /\ s_pc[1] = "done"

-----------------------------------------------------------------------------
(* The garment log of a /process session *)

\* the batch loop of the session has run all its batches
AllBatchesGathered ==
    /\ p_batch_num = NumBatchesExpr(Len(p_urls), BatchSize(p_req))
    /\ Len(p_all_content) = Len(p_urls)
    /\ tasks = <<>>

\* the session left its try block through "except Exception"
EndedWithException == s_exit[1] \in {"exc_download", "exc_batch", "exc_upload"}

\* C33: upload_processed_garments_to_gcs is entered only when the batch loop
\* has run all its batches, the garment log is either what it was before the
\* session or that with the valid content of the session appended once, and
\* a session that left through its except clause has appended nothing and
\* returns success false with products_processed 0.
C33_GarmentLogWrittenOnceAtEnd ==
    LET valid == Values(ValidContent(p_all_content)) IN
    /\ (w_op[1] = "garments" /\ w_calls[1] > 0) =>
           /\ AllBatchesGathered
           /\ w_arg[1] = valid
    /\ garments_blob \in
           {garments_prev, Blob(GarmentsContent(ExistingGarments(garments_prev), valid))}
    /\ garments_blob # garments_prev => AllBatchesGathered
    /\ garments_log \in {<<>>, valid}
    /\ EndedWithException =>
           /\ garments_blob = garments_prev
           /\ p_summary.returned => p_summary = FailureSummary
           /\ s_pc[1] = "answered" => p_summary = FailureSummary

\* two batches have run, the valid content of both has been appended in one
\* write, and the session has answered
C33_Witness ==
    /\ p_batch_num = 2
    /\ Len(ValidContent(p_all_content)) = 2
    /\ garments_blob # garments_prev
    /\ garments_log = Values(ValidContent(p_all_content))
    /\ s_pc[1] = "answered"
    /\ p_summary.success

-----------------------------------------------------------------------------
(* product_api.py: concurrent /process sessions, each with its own           *)
(* start_index, end_index, all_urls and urls_to_process (p_req[s],           *)
(* p_all_urls[s], p_urls[s]), while the scraper service merges URLs into     *)
(* urls.txt                                                                  *)

\* the index ranges of two requests that do not overlap
DisjointRanges ==
    {r \in [Sessions -> [start_index : 0..(NumSessions - 1), end_index : 0..NumSessions,
                      batch_size : {1}]] :
        \A s, u \in Sessions :
            s < u => /\ r[s].start_index <= r[s].end_index
                     /\ r[s].end_index < r[u].start_index
                     /\ r[u].start_index <= r[u].end_index}

rangeFrame == <<mapping_blob, garments_blob, writerVars, crawlVars, p_status,
                p_all_content, p_batch_num, p_cooldowns, p_summary, fnVars, pageVars,
                webVars>>

\* session s: "all_urls = download_urls_from_gcs()"
R_Download(s) ==
    /\ s_pc[s] = "download"
    /\ IF urls_blob.exists
       THEN /\ p_all_urls' = [p_all_urls EXCEPT ![s] = DownloadedUrls(urls_blob)]
            /\ Goto(s, "validate")
       ELSE /\ Raise(s, "exc_download")
            /\ UNCHANGED p_all_urls
    /\ UNCHANGED <<urls_blob, sessFrame, rangeFrame, p_req, p_urls>>

\* session s: "Validate indices" and "urls_to_process = all_urls[start_index:end_index + 1]"
R_Validate(s) ==
    /\ s_pc[s] = "validate"
    /\ IF InvalidRange(p_req[s], p_all_urls[s])
       THEN /\ ExitTry(s, "invalid_range")
            /\ UNCHANGED p_urls
       ELSE /\ p_urls' = [p_urls EXCEPT ![s] =
                   SubSeq(p_all_urls[s], p_req[s].start_index + 1,
                          p_req[s].end_index + 1)]
            /\ Goto(s, "batches")
    /\ UNCHANGED <<urls_blob, sessFrame, rangeFrame, p_req, p_all_urls>>

\* the rest of session s, as in SessionStep
R_SessionStep(s) ==
    /\ \/ BeginAcquire(s)
       \/ BeginStore(s)
       \/ BatchRecordsImage(s)
       \/ BatchesDone(s)
       \/ BatchesRaise(s)
       \/ GarmentsAcquire(s)
       \/ GarmentsUploaded(s)
       \/ GarmentsRaise(s)
       \/ MappingLock(s)
       \/ MappingAcquire(s)
       \/ MappingUploaded(s)
       \/ MappingUnlock(s)
       \/ ExceptHandler(s)
       \/ EndAcquire(s)
       \/ EndStore(s)
    /\ UNCHANGED <<blobVars, writerVars, crawlVars, procVars, fnVars, pageVars, webVars>>

\* the scraper service runs upload_urls_to_gcs(urls) once, under its own lock
R_Merge ==
    /\ urls_returned = {}
    /\ \E urls \in {<<PA1>>, <<PB, PA2>>} :
           /\ urls_blob' = UploadUrls(urls_blob, urls)
           /\ urls_returned' = Range(urls)
    /\ UNCHANGED <<mapping_blob, garments_blob, gcs_lock, w_pc, w_op, w_arg, w_existing,
                   w_ret, w_calls, urls_prev, mapping_prev, mapping_log, garments_prev,
                   garments_log, sessVars, crawlVars, procVars, fnVars, pageVars, webVars>>

InitRanges ==
    /\ StoreInit(ProcessUrlsStates, {Absent}, {Absent})
    /\ app = "product_api"
    /\ TrackerIdle
    /\ CrawlIdle
    /\ FnIdle
    /\ PageIdle
    /\ WebIdle
    /\ p_req \in DisjointRanges
    /\ p_status = 0
    /\ p_all_urls = [s \in Sessions |-> <<>>]
    /\ p_urls = [s \in Sessions |-> <<>>]
    /\ p_all_content = <<>>
    /\ p_batch_num = 0
    /\ p_cooldowns = 0
    /\ p_summary = NoSummary
NextRanges ==
    \/ \E s \in Sessions : R_Download(s) \/ R_Validate(s) \/ R_SessionStep(s)
    \/ R_Merge
SpecRanges == InitRanges /\ [][NextRanges]_vars

\* C34: two sessions whose index ranges do not overlap process no URL in
\* common, whatever was merged into the persisted list between their
\* downloads of it.
C34_DisjointRangesDisjointUrls ==
    \A s, u \in Sessions :
        s # u => Range(p_urls[s]) \cap Range(p_urls[u]) = {}

-----------------------------------------------------------------------------
(* Sessions of one process over time: a server thread that has answered a    *)
(* request takes the next one and starts another session                     *)

\* number of requests a server thread takes
MaxRequests == 2

\* the server thread s takes its next request: process_hm_products or
\* scrape_hm_products is called again
NewRequest(s) ==
    /\ s_pc[s] = "done"
    /\ s_incs[s] < MaxRequests
    /\ s_pc' = [s_pc EXCEPT ![s] = "start"]
    /\ s_exit' = [s_exit EXCEPT ![s] = "none"]
    /\ UNCHANGED sessFrame

NextIds ==
    /\ \E s \in Sessions : SessionStep(s) \/ NewRequest(s)
    /\ UNCHANGED <<blobVars, writerVars, crawlVars, procVars, fnVars, pageVars, webVars>>
SpecIds == InitSessions /\ [][NextIds]_vars

\* the session of thread s has taken its display id and has not ended
ActiveWithId(s) == s_incs[s] = s_decs[s] + 1

\* C35: two sessions that are active at the same time have different
\* display ids (current_session, the value of the counter at their begin).
C35_ActiveSessionIdsDistinct ==
    \A s, u \in Sessions :
        s # u /\ ActiveWithId(s) /\ ActiveWithId(u) => s_current[s] # s_current[u]

-----------------------------------------------------------------------------
(* Lock order and progress of concurrent sessions *)

\* the lock session s is requesting, "none" when it is not at a lock
Requested(s) ==
    CASE s_pc[s] \in {"start", "end_lock"} -> "sessions"
      [] s_pc[s] = "mapping_lock" -> "image_mapping"
      [] s_pc[s] \in {"garments_lock", "mapping_gcs", "urls_lock"} -> "gcs"
      [] OTHER -> "none"

\* C36: a session requests the merge lock holding at most the image-mapping
\* lock, and requests the image-mapping lock and the sessions lock holding
\* no lock, so no two locks are ever requested in opposite orders; and a
\* session that is at a lock eventually gets past it.
C36_NoDeadlockOnLocks ==
    /\ [](\A s \in Sessions :
             /\ Requested(s) = "gcs" => LocksHeld(s) \subseteq {"image_mapping"}
             /\ Requested(s) \in {"image_mapping", "sessions"} => LocksHeld(s) = {})
    /\ \A s \in Sessions : (Requested(s) # "none") ~> (Requested(s) = "none")

\* one session waits for the merge lock, which the other holds together
\* with the image-mapping lock
C36_Witness ==
    /\ s_pc[1] = "mapping_cs" /\ LocksHeld(1) = {"image_mapping", "gcs"}
    /\ s_pc[2] = "garments_lock" /\ Requested(2) = "gcs"

-----------------------------------------------------------------------------
(* The image mapping a /process session persists *)

\* the article ids of the URLs of the session for which crawl_url returned a
\* record
RecordedIds ==
    {ExtractProductId(p_all_content[i].url)[1] :
        i \in {k \in DOMAIN p_all_content : p_all_content[k].val # NoneVal}}

\* C37: every key the session has added to the persisted image mapping is
\* the article id of a URL for which crawl_url returned a record; a URL
\* whose result is None has no entry.
C37_MappingOnlyForProducedRecords ==
    (DictKeys(DownloadedMapping(mapping_blob)) \ DictKeys(DownloadedMapping(mapping_prev)))
        \subseteq RecordedIds

-----------------------------------------------------------------------------
(* product_api.py: _global_image_mapping over the sessions of one process    *)

\* the product page session s crawls: the sessions have no URL in common
SessionUrl(s) == IF s = 1 THEN PA1 ELSE PA2

\* a crawl_url call of session s: "with _image_mapping_lock:
\* _global_image_mapping[article_id] = url_image"
M_Record(s) ==
    /\ s_pc[s] = "batches"
    /\ image_mapping_lock = 0
    /\ image_mapping' =
           DictSet(image_mapping, ExtractProductId(SessionUrl(s))[1], PageImage)
    /\ UNCHANGED <<blobVars, writerVars, app, active_sessions, sessions_lock,
                   image_mapping_lock, s_pc, s_tmp, s_current, s_exit, s_incs, s_decs,
                   gcs_lock, crawlVars, procVars, fnVars, pageVars, webVars>>

\* upload_image_mapping_to_gcs(_global_image_mapping) of session s, inside
\* its lock: download, update, upload
M_Upload(s) ==
    /\ s_pc[s] = "mapping_cs"
    /\ mapping_blob' =
           Blob(JsonDumps(CombinedMapping(ExistingMapping(mapping_blob), image_mapping)))
    /\ mapping_log' = [mapping_log EXCEPT ![s] =
                          Append(@, [arg |-> image_mapping, ret |-> "True"])]
    /\ gcs_lock' = 0
    /\ Goto(s, "mapping_unlock")
    /\ UNCHANGED <<urls_blob, garments_blob, w_pc, w_op, w_arg, w_existing, w_ret,
                   w_calls, urls_prev, urls_returned, mapping_prev, garments_prev,
                   garments_log, app, active_sessions, sessions_lock,
                   image_mapping_lock, image_mapping, s_tmp, s_current, s_incs, s_decs,
                   crawlVars, procVars, fnVars, pageVars, webVars>>

\* the other steps of session s, as in SessionStep
M_SessionStep(s) ==
    /\ \/ BeginAcquire(s)
       \/ BeginStore(s)
       \/ DownloadUrls(s)
       \/ DownloadUrlsRaises(s)
       \/ RangeInvalid(s)
       \/ RangeValid(s)
       \/ BatchesDone(s)
       \/ BatchesRaise(s)
       \/ GarmentsAcquire(s)
       \/ GarmentsUploaded(s)
       \/ GarmentsRaise(s)
       \/ MappingLock(s)
       \/ MappingAcquire(s)
       \/ MappingUnlock(s)
       \/ ExceptHandler(s)
       \/ EndAcquire(s)
       \/ EndStore(s)
    /\ UNCHANGED <<blobVars, writerVars, crawlVars, procVars, fnVars, pageVars, webVars>>

InitSnapshots ==
    /\ StoreInit({Absent}, {Absent}, {Absent})
    /\ SessionsIdle
NextSnapshots == \E s \in Sessions : M_Record(s) \/ M_Upload(s) \/ M_SessionStep(s)
SpecSnapshots == InitSnapshots /\ [][NextSnapshots]_vars

\* C38: while a session is inside its upload of the image mapping it holds
\* the image-mapping lock, so the mapping it uploads does not change; and
\* every mapping a session has uploaded holds only the article ids of that
\* session's own URLs.
C38_UploadedMappingIsOwnSnapshot ==
    \A s \in Sessions :
        /\ s_pc[s] \in {"mapping_gcs", "mapping_cs"} => image_mapping_lock = s
        /\ \A i \in DOMAIN mapping_log[s] :
               DictKeys(mapping_log[s][i].arg) \subseteq {ExtractProductId(SessionUrl(s))[1]}

-----------------------------------------------------------------------------
(* web_server.py: POST /scrape and the scraper thread                        *)

NumPosts == 3
Posts == 1..NumPosts

webFrame == <<blobVars, gcs_lock, writerVars, sessVars, crawlVars, procVars, fnVars,
              pageVars>>

\* a thread of run_scraper that has been started and has not ended
Alive(r) == t_pc[r] \in {"started", "running", "finally"}

\* a POST /scrape request reaches trigger_scrape
T_Arrive(r) ==
    /\ r_pc[r] = "none"
    /\ r_pc' = [r_pc EXCEPT ![r] = "check"]
    /\ UNCHANGED <<webFrame, is_running, last_run, r_saw_running, r_status, t_pc>>

\* trigger_scrape: "if scraping_status["is_running"]:" reads the flag
T_Check(r) ==
    /\ r_pc[r] = "check"
    /\ r_saw_running' = [r_saw_running EXCEPT ![r] = is_running]
    /\ r_pc' = [r_pc EXCEPT ![r] = "branch"]
    /\ UNCHANGED <<webFrame, is_running, last_run, r_status, t_pc>>

\* trigger_scrape: the flag was set, "return jsonify({...}), 409"
T_Reject(r) ==
    /\ r_pc[r] = "branch"
    /\ r_saw_running[r]
    /\ r_status' = [r_status EXCEPT ![r] = 409]
    /\ r_pc' = [r_pc EXCEPT ![r] = "answered"]
    /\ UNCHANGED <<webFrame, is_running, last_run, r_saw_running, t_pc>>

\* trigger_scrape: the flag was clear, "thread = threading.Thread(
\* target=run_scraper)", "thread.start()", "return jsonify({"status":
\* "started", ...})"
T_StartThread(r) ==
    /\ r_pc[r] = "branch"
    /\ ~r_saw_running[r]
    /\ t_pc' = [t_pc EXCEPT ![r] = "started"]
    /\ r_status' = [r_status EXCEPT ![r] = 200]
    /\ r_pc' = [r_pc EXCEPT ![r] = "answered"]
    /\ UNCHANGED <<webFrame, is_running, last_run, r_saw_running>>

\* run_scraper: "scraping_status["is_running"] = True"
RS_Begin(r) ==
    /\ t_pc[r] = "started"
    /\ is_running' = TRUE
    /\ t_pc' = [t_pc EXCEPT ![r] = "running"]
    /\ UNCHANGED <<webFrame, last_run, r_pc, r_saw_running, r_status>>

\* run_scraper: scraper_main() returned, "scraping_status["last_run"] =
\* "success""
RS_Success(r) ==
    /\ t_pc[r] = "running"
    /\ last_run' = "success"
    /\ t_pc' = [t_pc EXCEPT ![r] = "finally"]
    /\ UNCHANGED <<webFrame, is_running, r_pc, r_saw_running, r_status>>

\* run_scraper: "except Exception as e:", "scraping_status["last_run"] =
\* "error""
RS_Raises(r) ==
    /\ t_pc[r] = "running"
    /\ last_run' = "error"
    /\ t_pc' = [t_pc EXCEPT ![r] = "finally"]
    /\ UNCHANGED <<webFrame, is_running, r_pc, r_saw_running, r_status>>

\* run_scraper: "finally: scraping_status["is_running"] = False"
RS_Finally(r) ==
    /\ t_pc[r] = "finally"
    /\ is_running' = FALSE
    /\ t_pc' = [t_pc EXCEPT ![r] = "done"]
    /\ UNCHANGED <<webFrame, last_run, r_pc, r_saw_running, r_status>>

InitWeb ==
    /\ StoreInit({Absent}, {Absent}, {Absent})
    /\ app = "web_server"
    /\ TrackerIdle
    /\ CrawlIdle
    /\ FnIdle
    /\ PageIdle
    /\ ProcessIdle
    /\ is_running = FALSE
    /\ last_run = "None"
    /\ r_pc = [r \in Posts |-> "none"]
    /\ r_saw_running = [r \in Posts |-> FALSE]
    /\ r_status = [r \in Posts |-> 0]
    /\ t_pc = [r \in Posts |-> "none"]
NextWeb ==
    \E r \in Posts :
        \/ T_Arrive(r)
        \/ T_Check(r)
        \/ T_Reject(r)
        \/ T_StartThread(r)
        \/ RS_Begin(r)
        \/ RS_Success(r)
        \/ RS_Raises(r)
        \/ RS_Finally(r)
SpecWeb == InitWeb /\ [][NextWeb]_vars

\* C39: at most one scraper thread is alive at any time; a request that has
\* been answered 409 has started no thread; and is_running is false whenever
\* no thread is between its first and its last statement.
C39_AtMostOneScraperThread ==
    /\ Cardinality({r \in Posts : Alive(r)}) <= 1
    /\ \A r \in Posts : r_status[r] = 409 => t_pc[r] = "none"
    /\ (\A r \in Posts : t_pc[r] \notin {"running", "finally"}) => is_running = FALSE

====
